---- MODULE Spec2Model ----
(***************************************************************************)
(* A model of the interactive editing engine of the diagram editor:        *)
(* WhiteboardView (canvas.py), the items it creates (items.py), the        *)
(* transform overlay and its handles (handles.py) and the shell actions of *)
(* MainWindow (main.py).                                                   *)
(*                                                                         *)
(* Points are pairs <<x, y>> of integers: without zoom or pan              *)
(* mapToScene(e.position().toPoint()) is an integer pixel position.        *)
(* Angles are integers in units of 1/1000000 degree.                       *)
(***************************************************************************)
EXTENDS Integers, Sequences, FiniteSets, TLC

\* ------------------------------------------------------------ bounds ----
\* Number of persistent item slots of the scene.
MaxItems == 2
\* Largest coordinate of a point given to snap_to_grid.
MaxCoord == 30
\* Number of accepted moves of one pen stroke.
MaxPenMoves == 2
\* Pointer moves (drag, resize and rotate) applied to one item.
MaxHandleMoves == 3
\* Scale actions of the shell applied to one item.
MaxScales == 2

\* ------------------------------------------------- program constants ----
GRID_SIZE == 20
ERASER_RADIUS == 16
PEN_MIN_STEP == 2
\* One degree, in the unit angles are kept in.
Deg == 1000000

\* Pointer positions the events are drawn from.
ArcPoints2 == {<<0, 0>>, <<50, 0>>}
GesturePoints == {<<0, 0>>, <<50, 0>>}
LinePoints == {<<0, 0>>, <<5, 5>>, <<50, 0>>}
ArcPoints == {<<0, 0>>, <<50, 0>>, <<0, 50>>}
EraserPoints == {<<0, 0>>, <<103, 57>>}
\* Around a rectangle dropped at (100, 60) and a line from (0, 0) to (60, 0):
\* on the rectangle, off its corner (161, 101) by 15 pixels each way, on the
\* line, and far from both.
ContactPoints == {<<100, 60>>, <<176, 116>>, <<40, 0>>, <<300, 300>>}
\* Around an item dropped at (100, 60): a corner of the default rectangle,
\* points further out, the item's origin.
HandlePoints == {<<160, 100>>, <<220, 140>>, <<800, 460>>, <<100, 60>>}
HandlePressPoints == {<<160, 100>>, <<100, 60>>}
\* Directions of the pointer from the overlay's center: quarter turns, and
\* directions whose angles add up inexactly.
Quarters == {<<1, 0>>, <<0, 1>>}
RotateDirs == {<<1, 0>>, <<5, 1>>, <<8, 1>>, <<3, 1>>}
\* Drop points of the palette drag.
DropPoints == {<<103, 57>>, <<5, 5>>}
\* The coordinates and the grid sizes snap_to_grid is applied to.
SnapCoords == -MaxCoord .. MaxCoord
GridSizes == {1, 2, 3, GRID_SIZE}
\* Palette labels (keys of ASSET_MAP); "resistor" stands for the pixmap assets.
Labels == {"Text", "Rectangle", "Ellipse", "resistor"}
Tools == {"select", "line", "pen", "eraser", "arc"}

\* ----------------------------------------------------------- helpers ----
Abs(x) == IF x < 0 THEN -x ELSE x

GCD[a \in Nat, b \in Nat] == IF b = 0 THEN a ELSE GCD[b, a % b]

\* Python's round() of the quotient n / d (d > 0): to the nearest integer,
\* a tie going to the even neighbour.
PyRoundDiv(n, d) ==
    LET q == n \div d
        r == n % d
    IN  IF 2 * r < d THEN q
        ELSE IF 2 * r > d THEN q + 1
        ELSE IF q % 2 = 0 THEN q ELSE q + 1

\* A plausible slip: round half up.
snap_coord_half_up(x, grid) == ((2 * x + grid) \div (2 * grid)) * grid

\* A plausible slip: the rounded quotient is not multiplied back.
snap_coord_index(x, grid) == PyRoundDiv(x, grid)

\* A plausible slip: int() in place of round().
snap_coord_floor(x, grid) == (x \div grid) * grid

\* round(x / grid) * grid of snap_to_grid.
snap_coord(x, grid) == PyRoundDiv(x, grid) * grid

\* snap_to_grid(p, grid) for a grid size grid > 0.
snap_to_grid_by(p, grid) == <<snap_coord(p[1], grid), snap_coord(p[2], grid)>>

\* snap_to_grid(p) with the default grid, GRID_SIZE.
snap_to_grid(p) == snap_to_grid_by(p, GRID_SIZE)

\* Squared distance: hypot(...) < 1.0 is Dist2(...) < 1 on integer points.
Dist2(p, q) == (p[1] - q[1]) * (p[1] - q[1]) + (p[2] - q[2]) * (p[2] - q[2])

\* degrees(atan(b / a)) for the reduced directions 0 <= b <= a of the model's
\* points, rounded to the angle unit.
AtanOct ==
    (<<1, 0>> :> 0) @@ (<<1, 1>> :> 45000000) @@ (<<9, 1>> :> 6340192) @@
    (<<7, 1>> :> 8130102) @@ (<<5, 4>> :> 38659808) @@
    (<<5, 1>> :> 11309932) @@ (<<8, 1>> :> 7125016) @@ (<<3, 1>> :> 18434949)

AtanQuad(ax, ay) ==
    LET g == GCD[ax, ay]
    IN  IF ay <= ax THEN AtanOct[<<ax \div g, ay \div g>>]
        ELSE 90 * Deg - AtanOct[<<ay \div g, ax \div g>>]

\* degrees(atan2(dy, dx)), in (-180, 180] degrees; atan2(0, 0) is 0.
Atan2Deg(dy, dx) ==
    IF dx = 0 /\ dy = 0 THEN 0
    ELSE LET base == AtanQuad(Abs(dx), Abs(dy))
         IN  IF dx >= 0 /\ dy >= 0 THEN base
             ELSE IF dx < 0 /\ dy >= 0 THEN 180 * Deg - base
             ELSE IF dx < 0 THEN base - 180 * Deg
             ELSE -base

deg_from(p, c) == Atan2Deg(p[2] - c[2], p[1] - c[1])

\* Angles are floats: the representable values lie one unit apart below 128
\* degrees, two units apart below 256 and four units apart from there on (a
\* double's spacing doubles the same way, from a far finer unit).
FloatUlp(v) ==
    IF Abs(v) < 128 * Deg THEN 1 ELSE IF Abs(v) < 256 * Deg THEN 2 ELSE 4

\* The float nearest to v, a tie going to the even neighbour.
FloatRound(v) == PyRoundDiv(v, FloatUlp(v)) * FloatUlp(v)

\* Python's x % y on floats for y > 0: fmod(x, y), exact and of the sign of
\* x, and a negative remainder is added to y, which rounds.
PyFloatMod(x, y) ==
    LET m == x % y
    IN  IF x < 0 THEN FloatRound(m) ELSE m

\* A plausible slip: the span normalised into (0, 360] instead of [0, 360).
ccw_span_positive(start_deg, end_deg) ==
    LET s == (end_deg - start_deg) % (360 * Deg)
    IN  IF s = 0 THEN 360 * Deg ELSE s

ccw_span(start_deg, end_deg) == (end_deg - start_deg) % (360 * Deg)

\* The signed sweep (CCW positive) computed by _arc_update_preview: default
\* clockwise, Ctrl = counter-clockwise, Shift = the other arc.
sweep_preview(c, s, cur, ctrl, shift) ==
    LET span == ccw_span(deg_from(s, c), deg_from(cur, c))
        sweep_ccw == IF ctrl THEN span ELSE -span
    IN  IF shift
        THEN (IF sweep_ccw >= 0 THEN sweep_ccw - 360 * Deg ELSE sweep_ccw + 360 * Deg)
        ELSE sweep_ccw

\* The same computation in _arc_update_preview_from_point.
sweep_preview_from_point(c, s, cur, ctrl, shift) ==
    LET span == ccw_span(deg_from(s, c), deg_from(cur, c))
        sweep_ccw == IF ctrl THEN span ELSE -span
    IN  IF shift
        THEN (IF sweep_ccw >= 0 THEN sweep_ccw - 360 * Deg ELSE sweep_ccw + 360 * Deg)
        ELSE sweep_ccw

\* A plausible slip: the default direction taken counter-clockwise.
sweep_finalize_ccw_default(c, s, end_pos, ctrl, shift) ==
    LET span == ccw_span(deg_from(s, c), deg_from(end_pos, c))
        sweep_ccw == IF ctrl THEN -span ELSE span
    IN  IF shift
        THEN (IF sweep_ccw >= 0 THEN sweep_ccw - 360 * Deg ELSE sweep_ccw + 360 * Deg)
        ELSE sweep_ccw

\* The same computation in _arc_finalize.
sweep_finalize(c, s, end_pos, ctrl, shift) ==
    LET span == ccw_span(deg_from(s, c), deg_from(end_pos, c))
        sweep_ccw == IF ctrl THEN span ELSE -span
    IN  IF shift
        THEN (IF sweep_ccw >= 0 THEN sweep_ccw - 360 * Deg ELSE sweep_ccw + 360 * Deg)
        ELSE sweep_ccw

\* The multiple of 45 degrees nearest to the direction p0 -> p1:
\* round(ang / 45.0), in -4 .. 4.
octant_of(p0, p1) == PyRoundDiv(deg_from(p1, p0), 45 * Deg)

\* No angle constraint: the end point of a line is the point itself.
NoK == 9

\* Fractions <<n, d>> with d > 0, in lowest terms.  The operations are
\* functions, so that an argument is evaluated once.
Frac == Int \X Int
Rat[n \in Int, d \in Int] ==
    LET g == GCD[Abs(n), Abs(d)]
    IN  IF d < 0 THEN <<(-n) \div g, (-d) \div g>> ELSE <<n \div g, d \div g>>
\* Common factors are taken out before the products are formed.
RMul[x \in Frac, y \in Frac] ==
    LET g == GCD[Abs(x[1]), y[2]]
        h == GCD[Abs(y[1]), x[2]]
    IN  Rat[(x[1] \div g) * (y[1] \div h), (x[2] \div h) * (y[2] \div g)]
RDiv[x \in Frac, y \in Frac] ==
    RMul[x, IF y[1] < 0 THEN <<-y[2], -y[1]>> ELSE <<y[2], y[1]>>]
RSub[x \in Frac, y \in Frac] ==
    LET g == GCD[x[2], y[2]]
    IN  Rat[x[1] * (y[2] \div g) - y[1] * (x[2] \div g), (x[2] \div g) * y[2]]
\* x < y, by the whole parts and then by the fractional parts.
RLess[x \in Frac, y \in Frac] ==
    LET qx == x[1] \div x[2]
        qy == y[1] \div y[2]
    IN  IF qx # qy THEN qx < qy
        ELSE (x[1] % x[2]) * y[2] < (y[1] % y[2]) * x[2]

RAbs[x \in Frac] == <<Abs(x[1]), x[2]>>
\* Largest r with r * r <= n.
ISqrt(n) == CHOOSE r \in 0 .. 200 : r * r <= n /\ n < (r + 1) * (r + 1)

Min(x, y) == IF x < y THEN x ELSE y
Max(x, y) == IF x > y THEN x ELSE y

RAdd[x \in Frac, y \in Frac] == RSub[x, <<-y[1], y[2]>>]
RNeg[x \in Frac] == <<-x[1], x[2]>>
RInt[n \in Int] == <<n, 1>>

\* --------------------------------------------------------- the scene ----
\* A persistent item (LabelItem, RectItem, EllipseItem, PixmapItem, LineItem,
\* the pen's QGraphicsPathItem, ArcItem).  st: "free" (no such object),
\* "scene" (in the scene), "removed" (a live object outside any scene, still
\* referenced by the view), "deleted" (the C++ object was deleted by
\* scene.clear() and the view still holds the Python wrapper).
\*   Line: a = p0, b = the end point before the angle constraint, k = the
\*         octant the end point was constrained to (NoK: none); the end point
\*         is a + |b - a| * (cos 45k, sin 45k).
\*   Path: path = the elements <<type, cx, cy, x, y>> in HALF pixels,
\*         type 0 = moveTo, 1 = quadTo (control, end), 2 = lineTo.
\*   Arc:  a = center, r2 = radius squared, start, sweep (CCW positive).
\* sx, sy and angle are the attributes _sx, _sy and _angle the handles keep on
\* their target (1.0, 1.0 and 0.0 while absent), the scales as fractions
\* <<numerator, denominator>>; nmoves counts the handle moves applied.
\* scale is Qt's scale() of the item and font the point size of a label's
\* font, both fractions; nscales counts the shell's scale actions applied.
NoItem ==
    [st |-> "free", kind |-> "none", selected |-> FALSE, pos |-> <<0, 0>>,
     a |-> <<0, 0>>, b |-> <<0, 0>>, k |-> NoK, r2 |-> 0, start |-> 0,
     sweep |-> 0, path |-> <<>>,
     sx |-> <<1, 1>>, sy |-> <<1, 1>>, angle |-> 0, nmoves |-> 0,
     scale |-> <<1, 1>>, font |-> <<20, 1>>, nscales |-> 0]

Ids == 1 .. MaxItems
Roles == {"N", "S", "E", "W", "NE", "NW", "SE", "SW"}

\* No handle is being dragged.  Of the handle that is: its role ("R" for the
\* rotate handle), _press_local, _start_sx, _start_sy, _press_angle and
\* _start_angle.
NoDrag ==
    [role |-> "none", press_local |-> <<(<<0, 1>>), (<<0, 1>>)>>,
     start_sx |-> <<1, 1>>, start_sy |-> <<1, 1>>,
     press_angle |-> 0, start_angle |-> 0]

\* A scene point o + R(rot) v: o and v are pairs of fractions and rot is the
\* part of the rotation angle beyond whole quarter turns, which are applied
\* to v; with rot = 0 the point is o + v.
NoPt == [o |-> <<(<<0, 1>>), (<<0, 1>>)>>, rot |-> 0, v |-> <<(<<0, 1>>), (<<0, 1>>)>>]

\* The view holds no overlay.  Of the overlay it holds: hpos, the positions of
\* the resize handles by role, and rpos, the position of the rotate handle.
NoOverlay ==
    [st |-> "none", target |-> 0, handles |-> {}, rotate |-> FALSE, drag |-> NoDrag,
     hpos |-> [r \in Roles |-> NoPt], rpos |-> NoPt]

VARIABLES
    tool,               \* _tool
    items,              \* the scene's persistent items, by slot
    overlay,            \* _overlay: st "none" | "scene" | "deleted", its target
    drawing_line,       \* _drawing_line
    line_item,          \* _line_item: a slot, 0 = None
    line_p0,            \* _line_p0
    drawing_pen,        \* _drawing_pen
    pen_path,           \* _pen_path: <<>> = None
    pen_item,           \* _pen_item: a slot, 0 = None
    pen_last,           \* _pen_last: <<>> = None
    erasing,            \* _erasing
    eraser_circle,      \* _eraser_circle: [st, visible]
    arc_stage,          \* _arc_stage
    arc_center,         \* _arc_center
    arc_start,          \* _arc_start
    arc_preview,        \* _arc_preview: [st, path]
    arc_center_dot,     \* _arc_center_dot: st
    arc_start_dot,      \* _arc_start_dot: st
    arc_end_dot,        \* _arc_end_dot: [st, pos] and the history raw
    arc_radius_preview, \* _arc_radius_preview: st
    mod_ctrl,           \* _mod_ctrl
    mod_shift,          \* _mod_shift
    mod_alt,            \* _mod_alt
    alt_held,           \* the Alt key is down (what e.modifiers() reports)
    lbutton,            \* the left button is down
    band,               \* a rubber-band selection is in progress
    grab,               \* the item that grabbed the mouse at the press
    snapped,            \* a point, a grid size and what snap_to_grid made of them
    escaping,           \* a text and what _escape_latex made of it
    checked,            \* the toolbar: isChecked() of the five tool actions
    parked,             \* the views of the tabs that are not the current one
    arc_raw,            \* history: the raw points of the accepted arc clicks
    line_raw,           \* history: the events of the last line gesture
    pen_pts             \* history: the points recorded by the pen gesture in progress

lineVars == <<drawing_line, line_item, line_p0>>
penVars == <<drawing_pen, pen_path, pen_item, pen_last, pen_pts>>
eraserVars == <<erasing, eraser_circle>>
arcVars == <<arc_stage, arc_center, arc_start, arc_preview, arc_center_dot,
             arc_start_dot, arc_end_dot, arc_radius_preview>>
modVars == <<mod_ctrl, mod_shift, mod_alt, alt_held>>
\* The main window around the current view, and what no handler of the view
\* touches.
windowVars == <<checked, parked>>
pureVars == <<snapped, escaping>>
outerVars == <<pureVars, windowVars>>
vars == <<tool, items, overlay, lineVars, penVars, eraserVars, arcVars,
          modVars, outerVars, lbutton, band, grab, arc_raw, line_raw>>

\* No item holds the mouse.  Of the item that does: its slot, the point of the
\* press and the positions of the items at the press.
NoGrab == [item |-> 0, press |-> <<0, 0>>, from |-> [i \in Ids |-> <<0, 0>>]]

\* raw is history: the pointer position of the event the dot was last placed
\* by.
NoDot == [st |-> "none", pos |-> <<0, 0>>, raw |-> <<0, 0>>]
PlacedFor(ed, p) == IF ed.st = "scene" THEN [ed EXCEPT !.raw = p] ELSE ed
NoPreview == [st |-> "none", path |-> <<>>]
NoCircle == [st |-> "none", visible |-> FALSE]

\* A point before it is snapped to a grid.
NoSnap == [p |-> <<0, 0>>, grid |-> GRID_SIZE, n |-> 0, once |-> <<0, 0>>, twice |-> <<0, 0>>]

\* The view and its scene after construction.
InitView ==
    /\ tool = "select"
    /\ items = [i \in Ids |-> NoItem]
    /\ overlay = NoOverlay
    /\ drawing_line = FALSE /\ line_item = 0 /\ line_p0 = <<0, 0>>
    /\ drawing_pen = FALSE /\ pen_path = <<>> /\ pen_item = 0 /\ pen_last = <<>>
    /\ pen_pts = <<>>
    /\ erasing = FALSE /\ eraser_circle = NoCircle
    /\ arc_stage = 0 /\ arc_center = <<0, 0>> /\ arc_start = <<0, 0>>
    /\ arc_preview = NoPreview /\ arc_center_dot = "none"
    /\ arc_start_dot = "none" /\ arc_end_dot = NoDot
    /\ arc_radius_preview = "none"
    /\ mod_ctrl = FALSE /\ mod_shift = FALSE /\ mod_alt = FALSE
    /\ alt_held = FALSE
    /\ lbutton = FALSE /\ band = FALSE /\ grab = NoGrab
    /\ arc_raw = <<>> /\ line_raw = <<>>
    /\ checked = [t \in Tools |-> t = "select"] /\ parked = <<>>

\* No text is being escaped.
NoEscape == [text |-> <<>>, done |-> FALSE, out |-> <<>>]

Init == InitView /\ snapped = NoSnap /\ escaping = NoEscape

\* ------------------------------------------------- scene bookkeeping ----
InScene(its) == {i \in Ids : its[i].st = "scene"}
Selected(its) == {i \in InScene(its) : its[i].selected}
FreeSlots(its) == {i \in Ids : its[i].st = "free"}
NewSlot(its) == CHOOSE i \in FreeSlots(its) : \A j \in FreeSlots(its) : i <= j

\* Python frees an item that is outside the scene once the view drops its
\* last reference to it.
Collect(its, refs) ==
    [i \in Ids |-> IF its[i].st \in {"removed", "deleted"} /\ i \notin refs
                   THEN NoItem ELSE its[i]]

\* QGraphicsScene.removeItem: the item leaves the scene and its selection.
RemoveFromScene(its, S) ==
    [i \in Ids |-> IF i \in S /\ its[i].st = "scene"
                   THEN [its[i] EXCEPT !.st = "removed", !.selected = FALSE]
                   ELSE its[i]]

\* ---------------------------------------------------- item geometry ----
\* Nominal size of the one-letter label in its default font.
LabelW == 30
LabelH == 40
\* The 64 x 64 placeholder pixmap, centred by setOffset.
PixHalf == 32
\* Half extents of the default 120 x 80 rectangle and ellipse.
RectHalfW == 60
RectHalfH == 40
\* QFont("Times New Roman", 20) of a new label.
DEFAULT_FONT_PT == 20

\* boundingRect() as <<left, top, right, bottom>>, in fractions.  The
\* rectangle and the ellipse add half the pen width; the selectable pixmap
\* adds half a pixel and was offset by half its 65-pixel bounding width; the
\* label grows with its font; an arc is taken by its circle.
boundingRect(it) ==
    CASE it.kind \in {"Rect", "Ellipse"} ->
            <<(<<-(RectHalfW + 1), 1>>), (<<-(RectHalfH + 1), 1>>),
              (<<RectHalfW + 1, 1>>), (<<RectHalfH + 1, 1>>)>>
      [] it.kind = "Pixmap" ->
            <<(<<-(PixHalf + 1), 1>>), (<<-(PixHalf + 1), 1>>),
              (<<PixHalf, 1>>), (<<PixHalf, 1>>)>>
      [] it.kind = "Label" ->
            <<(<<0, 1>>), (<<0, 1>>),
              RMul[it.font, Rat[LabelW, DEFAULT_FONT_PT]],
              RMul[it.font, Rat[LabelH, DEFAULT_FONT_PT]]>>
      [] it.kind = "Arc" ->
            <<(<<it.a[1] - ISqrt(it.r2) - 1, 1>>), (<<it.a[2] - ISqrt(it.r2) - 1, 1>>),
              (<<it.a[1] + ISqrt(it.r2) + 1, 1>>), (<<it.a[2] + ISqrt(it.r2) + 1, 1>>)>>
      [] OTHER -> <<(<<0, 1>>), (<<0, 1>>), (<<0, 1>>), (<<0, 1>>)>>

RHalf[x \in Frac] == RDiv[x, <<2, 1>>]

\* boundingRect().center() in the item's coordinates: the middle of the
\* bounding rectangle of each kind.
center_local(it) ==
    CASE it.kind = "Pixmap" -> <<(<<-1, 2>>), (<<-1, 2>>)>>
      [] it.kind = "Label" ->
            <<RMul[it.font, Rat[LabelW, 2 * DEFAULT_FONT_PT]],
              RMul[it.font, Rat[LabelH, 2 * DEFAULT_FONT_PT]]>>
      [] it.kind = "Arc" -> <<(<<it.a[1], 1>>), (<<it.a[2], 1>>)>>
      [] OTHER -> <<(<<0, 1>>), (<<0, 1>>)>>

\* transformOriginPoint(): the center of the bounding rectangle, set when the
\* item is dropped and by apply_transform.  (It lags behind the center only
\* for a label whose font changed, and a label's scale() is always 1.)
transformOriginPoint(it) == center_local(it)

\* The whole quarter turns of the angle.
QuarterOf(angle) == (angle \div (90 * Deg)) % 4

\* The vector v turned by q quarter turns (y pointing down).
QuarterRot(q, v) ==
    CASE q % 4 = 0 -> v
      [] q % 4 = 1 -> <<RNeg[v[2]], v[1]>>
      [] q % 4 = 2 -> <<RNeg[v[1]], RNeg[v[2]]>>
      [] OTHER -> <<v[2], RNeg[v[1]]>>

\* The point o + s (m - o) for a scale s about o: scale() about the
\* transform origin.
ScaleAbout(s, o, m) ==
    <<RAdd[o[1], RMul[s, RSub[m[1], o[1]]]], RAdd[o[2], RMul[s, RSub[m[2], o[2]]]]>>

\* The scene point pos + o + R(angle) v with o and v already scaled.
ScenePoint(pos, angle, o, v) ==
    [o |-> <<RAdd[<<pos[1], 1>>, o[1]], RAdd[<<pos[2], 1>>, o[2]]>>,
     rot |-> angle % (90 * Deg),
     v |-> QuarterRot(QuarterOf(angle), v)]

\* mapToScene of the local point p: the transform of apply_transform,
\* rotate(angle) then scale(sx, sy), which scales first and then rotates
\* about the item's origin; then scale() about the transform origin; then
\* the position.  With s = scale() and c the transform origin the point is
\* pos + (1 - s) c + R(angle) (s sx p.x, s sy p.y).
mapToScene(it, p) ==
    ScenePoint(it.pos, it.angle,
               ScaleAbout(RSub[<<1, 1>>, it.scale], <<(<<0, 1>>), (<<0, 1>>)>>,
                          transformOriginPoint(it)),
               <<RMul[it.scale, RMul[it.sx, p[1]]], RMul[it.scale, RMul[it.sy, p[2]]]>>)

\* mapFromScene of the scene point p, for an angle of whole quarter turns:
\* the position and scale() are taken back, the point is rotated back and
\* divided by the scales.
mapFromScene(it, p) ==
    LET u == QuarterRot(4 - QuarterOf(it.angle),
                        ScaleAbout(RDiv[<<1, 1>>, it.scale], transformOriginPoint(it),
                                   <<(<<p[1] - it.pos[1], 1>>), (<<p[2] - it.pos[2], 1>>)>>))
    IN  <<RDiv[u[1], it.sx], RDiv[u[2], it.sy]>>

\* mapFromScene(scenePos) - center.
LocalFromCenter(it, p) ==
    LET l == mapFromScene(it, p)
        c == center_local(it)
    IN  <<RSub[l[1], c[1]], RSub[l[2], c[2]]>>

\* ----------------------------------------------------------- overlay ----
\* A plausible slip: the rotate handle is forgotten.
ensure_handles_no_rotate(target) ==
    [NoOverlay EXCEPT !.st = "scene", !.target = target, !.handles = Roles]

\* TransformOverlay(target) with _ensure_handles(): 8 resize handles, one per
\* role, and 1 rotate handle.
ensure_handles(target) ==
    [NoOverlay EXCEPT !.st = "scene", !.target = target, !.handles = Roles,
                      !.rotate = TRUE]

\* mid(a, b) of two points mapped from the same item.
mid(a, b) ==
    [a EXCEPT !.v = <<RHalf[RAdd[a.v[1], b.v[1]]], RHalf[RAdd[a.v[2], b.v[2]]]>>]

\* A plausible slip: the handles of the east and west sides are exchanged.
handle_positions_mirrored(TL, TR, BR_, BL) ==
    [role \in Roles |->
        CASE role = "N" -> mid(TL, TR)   [] role = "S" -> mid(BR_, BL)
          [] role = "E" -> mid(BL, TL)   [] role = "W" -> mid(TR, BR_)
          [] role = "NE" -> TL           [] role = "NW" -> TR
          [] role = "SE" -> BL           [] OTHER -> BR_]

\* The dictionary positions of update_from_target, from the mapped corners.
handle_positions(TL, TR, BR_, BL) ==
    [role \in Roles |->
        CASE role = "N" -> mid(TL, TR)   [] role = "S" -> mid(BR_, BL)
          [] role = "E" -> mid(TR, BR_)  [] role = "W" -> mid(BL, TL)
          [] role = "NE" -> TR           [] role = "NW" -> TL
          [] role = "SE" -> BR_          [] OTHER -> BL]

\* The length of the top edge, taken before the rotation beyond whole
\* quarter turns, where the edge is parallel to an axis and its length is
\* the sum of its absolute components; "or 1.0" for a degenerate edge.
edge_length(ex, ey) ==
    IF ex[1] = 0 /\ ey[1] = 0 THEN RInt[1] ELSE RAdd[RAbs[ex], RAbs[ey]]

\* The unit normal (-ey, ex) / length of the top edge.
edge_normal(ex, ey, length) == <<RDiv[RNeg[ey], length], RDiv[ex, length]>>

\* The point m + k n.
along(m, n, k) ==
    [m EXCEPT !.v = <<RAdd[m.v[1], RMul[RInt[k], n[1]]], RAdd[m.v[2], RMul[RInt[k], n[2]]]>>]

\* The normal is turned to point away from the center.
outward(M_N, center, n) ==
    IF RAdd[RMul[n[1], RSub[M_N.v[1], center.v[1]]],
            RMul[n[2], RSub[M_N.v[2], center.v[2]]]][1] < 0
    THEN along(M_N, n, -24) ELSE along(M_N, n, 24)

\* The rotate handle: 24 pixels from the middle of the top edge along the
\* edge's normal, on the side away from the center.
rotate_handle_position(TL, TR, BR_, BL) ==
    outward(mid(TL, TR), mid(mid(TL, TR), mid(BR_, BL)),
            edge_normal(RSub[TR.v[1], TL.v[1]], RSub[TR.v[2], TL.v[2]],
                        edge_length(RSub[TR.v[1], TL.v[1]], RSub[TR.v[2], TL.v[2]])))

\* The corners TL, TR, BR, BL of the bounding rectangle br mapped to the scene.
scene_corners(t, br) ==
    <<mapToScene(t, <<br[1], br[2]>>), mapToScene(t, <<br[3], br[2]>>),
      mapToScene(t, <<br[3], br[4]>>), mapToScene(t, <<br[1], br[4]>>)>>

\* The handles are placed from the mapped corners c.
place_handles(ov, c) ==
    [ov EXCEPT !.hpos = handle_positions(c[1], c[2], c[3], c[4]),
               !.rpos = IF ov.rotate
                        THEN rotate_handle_position(c[1], c[2], c[3], c[4])
                        ELSE @]

\* update_from_target: nothing without a target in the scene; otherwise the
\* corners of the target's bounding rectangle are mapped to the scene and
\* the handles are placed.
update_from_target(ov, its) ==
    IF ov.st # "scene" \/ ov.target = 0 THEN ov
    ELSE IF its[ov.target].st # "scene" THEN ov
    ELSE place_handles(ov, scene_corners(its[ov.target], boundingRect(its[ov.target])))

\* A plausible slip: the overlay is left in the scene and in the view.
drop_overlay_keep(ov) == ov

\* _drop_overlay.  scene().removeItem() of a wrapper whose C++ object is
\* deleted raises RuntimeError before _overlay is cleared.
drop_overlay(ov) == IF ov.st = "scene" THEN NoOverlay ELSE ov
drop_overlay_raises(ov) == ov.st = "deleted"

\* TransformOverlay(target) after _drop_overlay, added to the scene; the
\* overlay is left as it is where _drop_overlay raised.
new_overlay(ov, target) == IF drop_overlay_raises(ov) THEN ov ELSE ensure_handles(target)

\* _ensure_overlay(target): the overlay of the same target is refreshed, any
\* other is dropped and a new one is created, added to the scene and
\* refreshed.
ensure_overlay(its, ov, target) ==
    update_from_target(IF ov.st # "none" /\ ov.target = target THEN ov
                       ELSE new_overlay(ov, target), its)

\* A plausible slip: the overlay is kept for a multi-item selection.
on_selection_changed_keep(its, ov) ==
    IF Cardinality(Selected(its)) >= 1
    THEN ensure_overlay(its, ov, CHOOSE i \in Selected(its) : TRUE)
    ELSE drop_overlay(ov)

\* _on_selection_changed, the slot of scene.selectionChanged.
on_selection_changed(its, ov) ==
    IF Cardinality(Selected(its)) = 1
    THEN ensure_overlay(its, ov, CHOOSE i \in Selected(its) : TRUE)
    ELSE drop_overlay(ov)

\* The overlay after the scene removed the items S one by one: the slot runs
\* after each removal that changed the selection, so the last run decides.
AfterRemoval(its, ov, S) ==
    IF \E i \in S : its[i].st = "scene" /\ its[i].selected
    THEN on_selection_changed(RemoveFromScene(its, S), ov)
    ELSE ov


\* ------------------------------------------------------- set_tool ----
\* _reset_arc as the values it leaves: _safe_remove_item skips a deleted
\* wrapper, and every reference is cleared.
ResetArc ==
    /\ arc_stage' = 0
    /\ arc_center' = <<0, 0>>
    /\ arc_start' = <<0, 0>>
    /\ arc_preview' = NoPreview
    /\ arc_center_dot' = "none"
    /\ arc_start_dot' = "none"
    /\ arc_end_dot' = NoDot
    /\ arc_radius_preview' = "none"
    /\ arc_raw' = <<>>

\* _make_eraser_circle: created hidden unless the view already holds one.
make_eraser_circle(c) ==
    IF c.st = "none" THEN [st |-> "scene", visible |-> FALSE] ELSE c

\* _remove_eraser_circle raises RuntimeError on a deleted wrapper.
remove_eraser_circle_raises(c) == c.st = "deleted"

\* A plausible slip of set_tool: the arc gesture is never reset.
tool_resets_arc_never(name) == FALSE

\* set_tool resets the arc gesture for every tool but "arc" and "eraser".
tool_resets_arc(name) == name \notin {"arc", "eraser"}

set_tool(name) ==
    /\ tool' = name
    /\ IF name = "eraser"
       THEN /\ eraser_circle' = make_eraser_circle(eraser_circle)
            /\ UNCHANGED <<arcVars, arc_raw>>
       ELSE IF remove_eraser_circle_raises(eraser_circle)
       THEN UNCHANGED <<eraser_circle, arcVars, arc_raw>>
       ELSE /\ eraser_circle' = NoCircle
            /\ IF tool_resets_arc(name)
               THEN ResetArc
               ELSE UNCHANGED <<arcVars, arc_raw>>
    /\ band' = IF name = "select" THEN band ELSE FALSE
    /\ UNCHANGED <<items, overlay, lineVars, penVars, erasing, modVars, pureVars,
                   lbutton, grab, line_raw>>

\* The closure set_tool of _make_toolbar with a current view: the five checks
\* are set from the name and the tool is applied to the view.
toolbar_set_tool(name) ==
    /\ checked' = [t \in Tools |-> t = name]
    /\ set_tool(name)
    /\ UNCHANGED parked

\* ------------------------------------------------------ dropEvent ----
KindOf(label) ==
    CASE label = "Text" -> "Label"
      [] label = "Rectangle" -> "Rect"
      [] label = "Ellipse" -> "Ellipse"
      [] OTHER -> "Pixmap"

\* itemChange(ItemPositionChange) of the items that send geometry changes:
\* the position is snapped unless Alt is held.
item_change(value, alt) == IF alt THEN value ELSE snap_to_grid(value)

\* The overlay after a new item n was added and selected: the slot has run
\* and left ov; under the select tool the overlay is ensured on the item.
overlay_of_new(its, ov, n) == IF tool = "select" THEN ensure_overlay(its, ov, n) ELSE ov

\* A plausible slip: the drop position is used unsnapped.
drop_pos_raw(p, alt) == p

drop_pos(p, alt) == item_change(IF alt THEN p ELSE snap_to_grid(p), alt)

dropEvent(label, p, alt) ==
    /\ FreeSlots(items) # {}
    /\ LET n == NewSlot(items)
           its == [items EXCEPT ![n] =
                      [NoItem EXCEPT !.st = "scene", !.kind = KindOf(label),
                                     !.selected = TRUE,
                                     !.pos = drop_pos(p, alt)]]
       IN  /\ items' = its
           /\ overlay' = overlay_of_new(its, on_selection_changed(its, overlay), n)
    /\ UNCHANGED <<tool, lineVars, penVars, eraserVars, arcVars, modVars, outerVars,
                   lbutton, band, grab, arc_raw, line_raw>>

\* ----------------------------------------------------- hit testing ----
\* The unit direction of octant k, times 1 (axis) or as a diagonal.
OctDir(k) ==
    CASE k % 8 = 0 -> <<1, 0>>  [] k % 8 = 1 -> <<1, 1>>
      [] k % 8 = 2 -> <<0, 1>>  [] k % 8 = 3 -> <<-1, 1>>
      [] k % 8 = 4 -> <<-1, 0>> [] k % 8 = 5 -> <<-1, -1>>
      [] k % 8 = 6 -> <<0, -1>> [] OTHER -> <<1, -1>>

\* The end point of a line item, to the pixel.
LineEnd(it) ==
    IF it.k = NoK THEN it.b
    ELSE LET d == OctDir(it.k)
             len == IF d[1] # 0 /\ d[2] # 0
                    THEN ISqrt(Dist2(it.a, it.b) \div 2)
                    ELSE ISqrt(Dist2(it.a, it.b))
         IN  <<it.a[1] + len * d[1], it.a[2] + len * d[2]>>

\* The segment a-e meets the square of half side h centred on c
\* (separating axes: x, y and the segment's normal).
SegHitsBox(a, e, c, h) ==
    LET dx == e[1] - a[1]
        dy == e[2] - a[2]
    IN  /\ Min(a[1], e[1]) <= c[1] + h /\ Max(a[1], e[1]) >= c[1] - h
        /\ Min(a[2], e[2]) <= c[2] + h /\ Max(a[2], e[2]) >= c[2] - h
        /\ Abs(dx * (c[2] - a[2]) - dy * (c[1] - a[1])) <= h * (Abs(dx) + Abs(dy))

\* The rectangle of half extents hw, hh centred on q meets the square.
BoxHitsBox(q, hw, hh, c, h) ==
    Abs(c[1] - q[1]) <= h + hw /\ Abs(c[2] - q[2]) <= h + hh

\* The on-curve points of a pen path, in pixels.
PathPoints(path) == {<<path[j][4] \div 2, path[j][5] \div 2>> : j \in 1 .. Len(path)}

\* scene.items(rect): the item's shape meets the eraser's query rectangle,
\* the square of side 2 * _eraser_radius centred on the pointer.  Rect,
\* Ellipse, Pixmap and Label are exact up to the pen's half width; a pen path
\* is tested by its on-curve points and an arc by its circle's bounding box.
HitBy(it, c) ==
    LET h == ERASER_RADIUS
    IN  CASE it.kind = "Rect" -> BoxHitsBox(it.pos, RectHalfW + 1, RectHalfH + 1, c, h)
          [] it.kind = "Ellipse" ->
                LET dx == Max(0, Abs(c[1] - it.pos[1]) - h)
                    dy == Max(0, Abs(c[2] - it.pos[2]) - h)
                    A == RectHalfW + 1
                    B == RectHalfH + 1
                IN  (dx * B) * (dx * B) + (dy * A) * (dy * A) <= (A * B) * (A * B)
          [] it.kind = "Pixmap" -> BoxHitsBox(it.pos, PixHalf, PixHalf, c, h)
          [] it.kind = "Label" ->
                /\ c[1] + h >= it.pos[1] /\ c[1] - h <= it.pos[1] + LabelW
                /\ c[2] + h >= it.pos[2] /\ c[2] - h <= it.pos[2] + LabelH
          [] it.kind = "Line" -> SegHitsBox(it.a, LineEnd(it), c, h + 1)
          [] it.kind = "Path" -> \E q \in PathPoints(it.path) : BoxHitsBox(q, 1, 1, c, h)
          [] it.kind = "Arc" ->
                LET r == ISqrt(it.r2) + 1 IN BoxHitsBox(it.a, r, r, c, h)
          [] OTHER -> FALSE

\* A plausible slip: the eraser also removes what lies near the square.
erase_hits_wide(its, c) == {i \in InScene(its) : TRUE}

\* _erase_at: every persistent item in the hit list is removed.  The
\* transient items and the overlay with its handles are skipped by identity;
\* the previews of a line or pen gesture are persistent items and are not.
erase_hits(its, c) == {i \in InScene(its) : HitBy(its[i], c)}

\* The items the view or the overlay still reference.
Refs(li, pi, ov) == {li, pi} \cup (IF ov.st = "none" THEN {} ELSE {ov.target})

\* ------------------------------------------------------ line tool ----
PointOf(p, alt) == IF alt THEN p ELSE snap_to_grid(p)

\* An entry of the history of the line gesture: the event, its raw point and
\* the Alt and Shift modifiers it reports.
LineEv(ev, p, alt, shift) == [ev |-> ev, p |-> p, alt |-> alt, shift |-> shift]

start_line(p, alt) ==
    /\ FreeSlots(items) # {}
    /\ LET n == NewSlot(items)
           p0 == PointOf(p, alt)
       IN  /\ drawing_line' = TRUE
           /\ line_p0' = p0
           /\ line_item' = n
           /\ items' = Collect([items EXCEPT ![n] =
                                  [NoItem EXCEPT !.st = "scene", !.kind = "Line",
                                                 !.a = p0, !.b = p0]],
                               Refs(n, pen_item, overlay))
    /\ line_raw' = <<LineEv("press", p, alt, FALSE)>>
    /\ UNCHANGED <<tool, overlay, penVars, eraserVars, arcVars, modVars, outerVars, band, grab, arc_raw>>

\* _constrain_to_cardinal_45 as the octant the end point is forced to; the
\* point itself is returned when p1 = p0.
constrain_to_cardinal_45(p0, p1) == IF p1 = p0 THEN NoK ELSE octant_of(p0, p1) % 8

update_line(p, alt, shift) ==
    /\ IF line_item = 0 \/ items[line_item].st = "deleted"
       THEN UNCHANGED items
       ELSE LET p1 == PointOf(p, alt)
                k == IF shift THEN constrain_to_cardinal_45(line_p0, p1) ELSE NoK
            IN  items' = [items EXCEPT ![line_item].a = line_p0,
                                       ![line_item].b = p1, ![line_item].k = k]
    /\ line_raw' = <<line_raw[1], LineEv("move", p, alt, shift)>>
    /\ UNCHANGED <<tool, overlay, lineVars, penVars, eraserVars, arcVars, modVars, outerVars,
                   band, grab, arc_raw>>

\* A plausible slip: the preview is kept whatever its length.
line_too_short_never(it) == FALSE

\* line().length() < 1.0; the angle constraint preserves the length.
line_too_short(it) == Dist2(it.a, it.b) < 1

finish_line ==
    /\ drawing_line' = FALSE
    /\ line_raw' = Append(line_raw, LineEv("release", <<0, 0>>, FALSE, FALSE))
    /\ IF line_item = 0 \/ items[line_item].st = "deleted"
       THEN UNCHANGED <<line_item, items>>
       ELSE /\ line_item' = 0
            /\ items' = Collect(IF line_too_short(items[line_item])
                                THEN RemoveFromScene(items, {line_item})
                                ELSE items,
                                Refs(0, pen_item, overlay))
    /\ UNCHANGED <<tool, overlay, line_p0, penVars, eraserVars, arcVars, modVars, outerVars,
                   band, grab, arc_raw>>

\* ------------------------------------------------------- pen tool ----
MoveTo(p) == <<0, 2 * p[1], 2 * p[2], 2 * p[1], 2 * p[2]>>
LineTo(p) == <<2, 2 * p[1], 2 * p[2], 2 * p[1], 2 * p[2]>>
\* A plausible slip: the curve ends at the current point, not at the midpoint.
QuadTo_through(last, cur) == <<1, 2 * last[1], 2 * last[2], 2 * cur[1], 2 * cur[2]>>

\* quadTo(last, mid) with mid the midpoint of last and cur.
QuadTo(last, cur) == <<1, 2 * last[1], 2 * last[2], last[1] + cur[1], last[2] + cur[2]>>

manhattanLength(p, q) == Abs(p[1] - q[1]) + Abs(p[2] - q[2])

start_pen(p, alt) ==
    /\ FreeSlots(items) # {}
    /\ LET n == NewSlot(items)
           pos == PointOf(p, alt)
       IN  /\ drawing_pen' = TRUE
           /\ pen_last' = pos
           /\ pen_pts' = <<pos>>
           /\ pen_path' = <<MoveTo(pos)>>
           /\ pen_item' = n
           /\ items' = Collect([items EXCEPT ![n] =
                                  [NoItem EXCEPT !.st = "scene", !.kind = "Path",
                                                 !.path = <<MoveTo(pos)>>]],
                               Refs(line_item, n, overlay))
    /\ UNCHANGED <<tool, overlay, lineVars, eraserVars, arcVars, modVars, outerVars, band, grab,
                   arc_raw, line_raw>>

\* The jitter filter of _continue_pen.
pen_accepts(last, cur) == ~(manhattanLength(cur, last) < PEN_MIN_STEP)

continue_pen(p, alt) ==
    /\ IF pen_item = 0 \/ pen_path = <<>> \/ pen_last = <<>>
       THEN UNCHANGED <<pen_path, pen_last, pen_pts, items>>
       ELSE LET cur == PointOf(p, alt)
                path == Append(pen_path, QuadTo(pen_last, cur))
            IN  IF ~pen_accepts(pen_last, cur)
                THEN UNCHANGED <<pen_path, pen_last, pen_pts, items>>
                ELSE /\ Len(pen_path) <= MaxPenMoves
                     /\ pen_path' = path
                     /\ IF items[pen_item].st = "deleted"
                        THEN UNCHANGED <<pen_last, pen_pts, items>>
                        ELSE /\ pen_last' = cur
                             /\ pen_pts' = Append(pen_pts, cur)
                             /\ items' = [items EXCEPT ![pen_item].path = path]
    /\ UNCHANGED <<tool, overlay, lineVars, drawing_pen, pen_item, eraserVars,
                   arcVars, modVars, outerVars, band, grab, arc_raw, line_raw>>

finish_pen ==
    /\ IF pen_item # 0 /\ pen_path # <<>> /\ pen_last # <<>>
       THEN LET path == Append(pen_path, LineTo(pen_last))
            IN  IF items[pen_item].st = "deleted"
                THEN /\ Len(pen_path) <= MaxPenMoves + 1
                     /\ pen_path' = path
                     /\ UNCHANGED <<drawing_pen, pen_item, pen_last, pen_pts, items>>
                ELSE /\ drawing_pen' = FALSE /\ pen_path' = <<>>
                     /\ pen_item' = 0 /\ pen_last' = <<>> /\ pen_pts' = <<>>
                     /\ items' = Collect([items EXCEPT ![pen_item].path = path],
                                         Refs(line_item, 0, overlay))
       ELSE /\ drawing_pen' = FALSE /\ pen_path' = <<>>
            /\ pen_item' = 0 /\ pen_last' = <<>> /\ pen_pts' = <<>>
            /\ items' = Collect(items, Refs(line_item, 0, overlay))
    /\ UNCHANGED <<tool, overlay, lineVars, eraserVars, arcVars, modVars, outerVars, band, grab,
                   arc_raw, line_raw>>

\* --------------------------------------------------------- eraser ----
\* _erase_at as the scene and the overlay it leaves.
EraseAt(p) ==
    LET H == erase_hits(items, p)
    IN  /\ overlay' = AfterRemoval(items, overlay, H)
        /\ items' = Collect(RemoveFromScene(items, H), Refs(line_item, pen_item, overlay'))

start_erasing(p) ==
    /\ erasing' = TRUE
    /\ EraseAt(p)
    /\ eraser_circle' = IF eraser_circle.st = "scene"
                        THEN [eraser_circle EXCEPT !.visible = TRUE]
                        ELSE eraser_circle
    /\ UNCHANGED <<tool, lineVars, penVars, arcVars, modVars, outerVars, band, grab, arc_raw, line_raw>>

stop_erasing ==
    /\ erasing' = FALSE
    /\ eraser_circle' = IF eraser_circle.st = "scene"
                        THEN [eraser_circle EXCEPT !.visible = FALSE]
                        ELSE eraser_circle
    /\ UNCHANGED <<tool, items, overlay, lineVars, penVars, arcVars, modVars, outerVars, band, grab,
                   arc_raw, line_raw>>

\* mouseMoveEvent under the eraser: _update_eraser_cursor raises on a deleted
\* circle, before anything is erased.
eraser_move(p) ==
    /\ IF erasing /\ eraser_circle.st # "deleted"
       THEN EraseAt(p)
       ELSE UNCHANGED <<items, overlay>>
    /\ UNCHANGED <<tool, lineVars, penVars, eraserVars, arcVars, modVars, outerVars, band, grab,
                   arc_raw, line_raw>>

\* ------------------------------------------------------- arc tool ----
\* A plausible slip: the end dot is placed before the test for the preview.
update_preview_always(pv, ed, rp, c, s, cur, sweep) ==
    IF ed.st = "deleted" THEN <<pv, ed>>
    ELSE LET ed1 == [ed EXCEPT !.st = "scene", !.pos = cur]
         IN  IF pv.st \in {"none", "deleted"} \/ rp = "deleted" THEN <<pv, ed1>>
             ELSE IF Dist2(s, c) < 1
             THEN <<[pv EXCEPT !.path = <<>>], ed1>>
             ELSE <<[pv EXCEPT !.path = <<Dist2(s, c), deg_from(s, c), sweep>>], ed1>>

\* _arc_update_preview and _arc_update_preview_from_point from the point cur
\* on: the end dot is placed, then the radius guide and the preview path are
\* rebuilt.  A deleted wrapper raises RuntimeError at its first use and the
\* rest of the handler is skipped.  The result is <<preview, end dot>>.
update_preview(pv, ed, rp, c, s, cur, sweep) ==
    IF pv.st = "none" \/ ed.st = "deleted" THEN <<pv, ed>>
    ELSE LET ed1 == [ed EXCEPT !.st = "scene", !.pos = cur]
         IN  IF pv.st = "deleted" \/ rp = "deleted" THEN <<pv, ed1>>
             ELSE IF Dist2(s, c) < 1
             THEN <<[pv EXCEPT !.path = <<>>], ed1>>
             ELSE <<[pv EXCEPT !.path = <<Dist2(s, c), deg_from(s, c), sweep>>], ed1>>

arc_update_preview(p) ==
    LET cur == PointOf(p, mod_alt)
        r == update_preview(arc_preview, arc_end_dot, arc_radius_preview,
                            arc_center, arc_start, cur,
                            sweep_preview(arc_center, arc_start, cur, mod_ctrl, mod_shift))
    IN  /\ arc_preview' = r[1]
        /\ arc_end_dot' = PlacedFor(r[2], p)
        /\ UNCHANGED <<arc_stage, arc_center, arc_start, arc_center_dot,
                       arc_start_dot, arc_radius_preview, arc_raw>>

\* The preview rebuilt on a Ctrl or Shift change, from the end dot's position,
\* with the modifiers as they are after the key event.
arc_update_preview_from_point(ctrl, shift) ==
    IF arc_end_dot.st # "scene"
    THEN UNCHANGED <<arcVars, arc_raw>>
    ELSE LET cur == PointOf(arc_end_dot.pos, mod_alt)
             r == update_preview(arc_preview, arc_end_dot, arc_radius_preview,
                                 arc_center, arc_start, cur,
                                 sweep_preview_from_point(arc_center, arc_start, cur,
                                                          ctrl, shift))
         IN  /\ arc_preview' = r[1]
             /\ arc_end_dot' = r[2]
             /\ UNCHANGED <<arc_stage, arc_center, arc_start, arc_center_dot,
                            arc_start_dot, arc_radius_preview, arc_raw>>

\* r < 1.0 in _arc_finalize: no item is made.
arc_item_dropped(c, s) == Dist2(s, c) < 1

\* _arc_finalize: the ArcItem, or nothing when r < 1.0.
arc_finalize(end_pos) ==
    LET c == arc_center
        s == arc_start
        e == PointOf(end_pos, mod_alt)
    IN  [NoItem EXCEPT !.st = "scene", !.kind = "Arc", !.selected = TRUE,
                       !.a = c, !.r2 = Dist2(s, c), !.start = deg_from(s, c),
                       !.sweep = sweep_finalize(c, s, e, mod_ctrl, mod_shift)]

\* A plausible slip: the second click is accepted however close to the center.
start_rejected_never(pos, c) == FALSE

\* hypot(pos - center) < 1.0: the second click is ignored.
start_rejected(pos, c) == Dist2(pos, c) < 1

\* A plausible slip: the third click leaves the gesture where it is.
ArcClickEnd_keep(p) == UNCHANGED <<arcVars, arc_raw, items, overlay>>

\* _arc_click at stage 2: _arc_finalize, then _reset_arc.
ArcClickEnd(p) ==
    /\ IF arc_item_dropped(arc_center, arc_start)
       THEN UNCHANGED <<items, overlay>>
       ELSE /\ FreeSlots(items) # {}
            /\ LET n == NewSlot(items)
                   its == [items EXCEPT ![n] = arc_finalize(PointOf(p, mod_alt))]
               IN  /\ items' = its
                   /\ overlay' = overlay_of_new(its, on_selection_changed(its, overlay), n)
    /\ ResetArc

arc_click(p) ==
    LET pos == PointOf(p, mod_alt)
    IN  /\ IF arc_stage = 0
           THEN /\ arc_center' = pos
                /\ arc_stage' = 1
                /\ arc_center_dot' = IF arc_center_dot = "deleted" THEN "deleted" ELSE "scene"
                /\ arc_raw' = <<p>>
                /\ UNCHANGED <<arc_start, arc_preview, arc_start_dot, arc_end_dot,
                               arc_radius_preview, items, overlay>>
           ELSE IF arc_stage = 1
           THEN IF start_rejected(pos, arc_center)
                THEN UNCHANGED <<arcVars, arc_raw, items, overlay>>
                ELSE /\ arc_start' = pos
                     /\ arc_stage' = 2
                     /\ arc_raw' = Append(arc_raw, p)
                     /\ UNCHANGED <<arc_center, arc_center_dot, items, overlay>>
                     /\ IF arc_start_dot = "deleted"
                        THEN UNCHANGED <<arc_start_dot, arc_preview, arc_end_dot,
                                         arc_radius_preview>>
                        ELSE LET pv == IF arc_preview.st = "none"
                                       THEN [st |-> "scene", path |-> <<>>]
                                       ELSE arc_preview
                                 rp == IF arc_radius_preview = "none"
                                       THEN "scene" ELSE arc_radius_preview
                                 r == update_preview(pv, arc_end_dot, rp, arc_center,
                                          pos, pos,
                                          sweep_preview(arc_center, pos, pos,
                                                        mod_ctrl, mod_shift))
                             IN  /\ arc_start_dot' = "scene"
                                 /\ arc_radius_preview' = rp
                                 /\ arc_preview' = r[1]
                                 /\ arc_end_dot' = PlacedFor(r[2], p)
           ELSE ArcClickEnd(p)
        /\ UNCHANGED <<tool, lineVars, penVars, eraserVars, modVars, outerVars, band, grab, line_raw>>

\* ---------------------------------------------- select tool (Qt) ----
Selectable(its) == {i \in InScene(its) : its[i].kind # "Line"}

SetSelection(its, S) ==
    [i \in Ids |-> IF its[i].st = "scene"
                   THEN [its[i] EXCEPT !.selected = (i \in S)] ELSE its[i]]

\* The slot runs only when the selection changed.
Reselect(S) ==
    LET its == SetSelection(items, S)
    IN  /\ items' = its
        /\ overlay' = IF S = Selected(items) THEN overlay
                      ELSE on_selection_changed(its, overlay)

\* The items a drag moves: ItemIsMovable is set on labels, rectangles,
\* ellipses and pixmaps.
Movable(its) == {i \in InScene(its) : its[i].kind \in {"Label", "Rect", "Ellipse", "Pixmap"}}

\* What a drag of the movable item i pressed at p starts from: the positions
\* of the selected movable items and of i.
grab_of(its, i, p) ==
    [item |-> i, press |-> p,
     from |-> [j \in Ids |->
                 IF j \in (Selected(its) \cup {i}) \cap Movable(its)
                 THEN its[j].pos ELSE <<0, 0>>]]

\* QGraphicsView.mousePressEvent under RubberBandDrag, the press at p: on
\* the selectable item i it selects the item alone (Ctrl toggles it) and the
\* item grabs the mouse; on the empty canvas (i = 0) it starts a rubber band
\* and clears the selection unless Ctrl.
select_press(i, ctrl, p) ==
    /\ IF i = 0
       THEN /\ band' = TRUE
            /\ grab' = NoGrab
            /\ Reselect(IF ctrl THEN Selected(items) ELSE {})
       ELSE /\ band' = FALSE
            /\ Reselect(IF ctrl
                        THEN (IF i \in Selected(items)
                              THEN Selected(items) \ {i}
                              ELSE Selected(items) \cup {i})
                        ELSE IF i \in Selected(items) THEN Selected(items) ELSE {i})
            /\ grab' = IF i \in Movable(items) THEN grab_of(items', i, p) ELSE NoGrab
    /\ UNCHANGED <<tool, lineVars, penVars, eraserVars, arcVars, modVars, outerVars,
                   arc_raw, line_raw>>

\* The rubber band selects the selectable items S inside it.
band_move(S) ==
    /\ Reselect(S)
    /\ UNCHANGED <<tool, lineVars, penVars, eraserVars, arcVars, modVars, outerVars, band, grab,
                   arc_raw, line_raw>>

\* QGraphicsItem.mouseMoveEvent of the item that grabbed the mouse, the
\* pointer at p: every selected movable item, and the grabbing item, is set
\* to its position at the press plus the pointer's displacement, through
\* itemChange, and is selected.  The overlay's filter sees the event as a
\* QGraphicsSceneMouseEvent before the item moves.
item_move(p, alt) ==
    LET M == (Selected(items) \cup {grab.item}) \cap Movable(items)
        its == [i \in Ids |->
                  IF i \in M
                  THEN [items[i] EXCEPT
                          !.pos = item_change(<<grab.from[i][1] + p[1] - grab.press[1],
                                                grab.from[i][2] + p[2] - grab.press[2]>>,
                                              alt),
                          !.selected = TRUE,
                          !.nmoves = @ + 1]
                  ELSE items[i]]
    IN  /\ items' = its
        /\ overlay' = IF Selected(its) = Selected(items) THEN overlay
                      ELSE on_selection_changed(its, overlay)
        /\ UNCHANGED <<tool, lineVars, penVars, eraserVars, arcVars, modVars, outerVars,
                       lbutton, band, grab, arc_raw, line_raw>>

\* The scene point p lies on the item: inside its bounding rectangle.
Contains(it, p) ==
    LET l == mapFromScene(it, p)
        br == boundingRect(it)
    IN  /\ ~RLess[l[1], br[1]] /\ ~RLess[br[3], l[1]]
        /\ ~RLess[l[2], br[2]] /\ ~RLess[br[4], l[2]]

\* ---------------------------------------------------- mouse events ----

PressLine(p, alt) ==
    /\ tool = "line" /\ ~lbutton /\ lbutton' = TRUE
    /\ start_line(p, alt)

PressPen(p, alt) ==
    /\ tool = "pen" /\ ~lbutton /\ lbutton' = TRUE
    /\ start_pen(p, alt)

PressEraser(p) ==
    /\ tool = "eraser" /\ ~lbutton /\ lbutton' = TRUE
    /\ start_erasing(p)

PressArc(p) ==
    /\ tool = "arc" /\ ~lbutton /\ lbutton' = TRUE
    /\ arc_click(p)

PressSelect(i, ctrl, p) ==
    /\ tool = "select" /\ ~lbutton /\ lbutton' = TRUE
    /\ select_press(i, ctrl, p)

MoveLine(p, alt, shift) ==
    /\ tool = "line" /\ drawing_line
    /\ update_line(p, alt, shift)
    /\ UNCHANGED lbutton

MovePen(p, alt) ==
    /\ tool = "pen" /\ drawing_pen
    /\ continue_pen(p, alt)
    /\ UNCHANGED lbutton

MoveEraser(p) ==
    /\ tool = "eraser"
    /\ eraser_move(p)
    /\ UNCHANGED lbutton

MoveArc(p) ==
    /\ tool = "arc" /\ arc_stage >= 1
    /\ arc_update_preview(p)
    /\ UNCHANGED <<tool, items, overlay, lineVars, penVars, eraserVars, modVars, outerVars,
                   lbutton, band, grab, line_raw>>

\* The move is not taken by a tool: it goes to QGraphicsView.
MoveToView ==
    /\ ~(tool = "line" /\ drawing_line) /\ ~(tool = "pen" /\ drawing_pen)
    /\ tool # "eraser" /\ ~(tool = "arc" /\ arc_stage >= 1)

\* A move with the button held goes to the item that grabbed the mouse.
MoveItem(p, alt) ==
    /\ MoveToView /\ lbutton
    /\ grab.item \in Movable(items)
    /\ \A i \in Selected(items) \cup {grab.item} : items[i].nmoves < MaxHandleMoves
    /\ item_move(p, alt)

\* Every other move goes to QGraphicsView: a rubber band in progress selects
\* what it covers.
MoveBand(S) ==
    /\ tool = "select" /\ band /\ lbutton
    /\ band_move(S)
    /\ UNCHANGED lbutton

ReleaseLine ==
    /\ lbutton /\ tool = "line" /\ drawing_line
    /\ lbutton' = FALSE
    /\ finish_line

ReleasePen ==
    /\ lbutton /\ tool = "pen" /\ drawing_pen
    /\ lbutton' = FALSE
    /\ finish_pen

ReleaseEraser ==
    /\ lbutton /\ tool = "eraser" /\ erasing
    /\ lbutton' = FALSE
    /\ stop_erasing

\* The release is not taken by a tool: it goes to QGraphicsView.
ReleaseToView ==
    /\ lbutton
    /\ ~(tool = "line" /\ drawing_line) /\ ~(tool = "pen" /\ drawing_pen)
    /\ ~(tool = "eraser" /\ erasing)

\* Every other release goes to QGraphicsView, which ends a rubber band.
ReleaseOther ==
    /\ ReleaseToView
    /\ overlay.drag = NoDrag
    /\ lbutton' = FALSE
    /\ band' = FALSE
    /\ grab' = NoGrab
    /\ UNCHANGED <<tool, items, overlay, lineVars, penVars, eraserVars, arcVars,
                   modVars, outerVars, arc_raw, line_raw>>

\* ----------------------------------------------- overlay handles ----
\* A plausible slip: the scale is not clamped.
clamp_none(v, lo, hi) == v

\* clamp(v, lo, hi) = max(lo, min(hi, v)).
clamp(v, lo, hi) ==
    LET m == IF RLess[v, hi] THEN v ELSE hi
    IN  IF RLess[lo, m] THEN m ELSE lo

SCALE_MIN == <<1, 10>>
SCALE_MAX == <<10, 1>>
\* 1 / EPS for EPS = 1e-6 of Handle.mouseMoveEvent.
EPS_INV == 1000000

\* The items a handle can be dragged on: the overlay is in the scene and its
\* target is alive.
HandleTarget == IF overlay.st = "scene" THEN overlay.target ELSE 0

\* The item is a live object, in the scene or outside any: the handles read
\* and write it without asking for its scene.
Alive(it) == it.st \in {"scene", "removed"}

\* Handle.mousePressEvent, reached through QGraphicsView under the select
\* tool: the press point relative to the center and the scales are recorded.
HandlePress(role, p) ==
    /\ tool = "select" /\ ~lbutton /\ lbutton' = TRUE
    /\ HandleTarget # 0 /\ Alive(items[HandleTarget])
    /\ role \in overlay.handles
    /\ LET t == items[HandleTarget]
       IN  overlay' = [overlay EXCEPT !.drag =
                          [NoDrag EXCEPT !.role = role,
                                         !.press_local = LocalFromCenter(t, p),
                                         !.start_sx = t.sx, !.start_sy = t.sy]]
    /\ band' = FALSE
    /\ grab' = NoGrab
    /\ UNCHANGED <<tool, items, lineVars, penVars, eraserVars, arcVars, modVars, outerVars,
                   arc_raw, line_raw>>

\* abs(x) > EPS for a fraction x: x # 0 and 1 / |x| < 1 / EPS.
ExceedsEps(x) == x[1] # 0 /\ x[2] \div Abs(x[1]) < EPS_INV

\* A plausible slip: the factor of an axis that is not divided starts at 0.
AxisFactor_zero(cur, press) == IF ExceedsEps(press) THEN RDiv[cur, press] ELSE <<0, 1>>

\* The factor of one axis: cur / press unless |press| <= EPS.
AxisFactor(cur, press) == IF ExceedsEps(press) THEN RDiv[cur, press] ELSE <<1, 1>>

\* A plausible slip: a handle of the east or west side scales the y axis too.
factor_y_all(role, cur, press) == AxisFactor(cur[2], press[2])

\* The factors of a move by the role of the handle: E and W scale x alone,
\* N and S scale y alone, the corners scale both.
factor_x(role, cur, press) ==
    IF role \in {"N", "S"} THEN <<1, 1>> ELSE AxisFactor(cur[1], press[1])
factor_y(role, cur, press) ==
    IF role \in {"E", "W"} THEN <<1, 1>> ELSE AxisFactor(cur[2], press[2])

\* Handle.mouseMoveEvent: the scales of the target from the pointer.
HandleMove(p) ==
    /\ lbutton /\ overlay.st = "scene" /\ overlay.drag.role \in Roles
    /\ Alive(items[overlay.target])
    /\ items[overlay.target].nmoves < MaxHandleMoves
    /\ LET d == overlay.drag
           t == items[overlay.target]
           cur == LocalFromCenter(t, p)
           sx == factor_x(d.role, cur, d.press_local)
           sy == factor_y(d.role, cur, d.press_local)
       IN  items' = [items EXCEPT
                       ![overlay.target].sx = clamp(RMul[d.start_sx, sx], SCALE_MIN, SCALE_MAX),
                       ![overlay.target].sy = clamp(RMul[d.start_sy, sy], SCALE_MIN, SCALE_MAX),
                       ![overlay.target].nmoves = @ + 1]
    /\ overlay' = update_from_target(overlay, items')
    /\ UNCHANGED <<tool, lineVars, penVars, eraserVars, arcVars, modVars, outerVars,
                   lbutton, band, grab, arc_raw, line_raw>>

\* Handle.mouseReleaseEvent and RotateHandle.mouseReleaseEvent.
HandleRelease ==
    /\ ReleaseToView
    /\ overlay.drag # NoDrag
    /\ lbutton' = FALSE
    /\ band' = FALSE
    /\ grab' = NoGrab
    /\ overlay' = [overlay EXCEPT !.drag = NoDrag]
    /\ UNCHANGED <<tool, items, lineVars, penVars, eraserVars, arcVars, modVars, outerVars,
                   arc_raw, line_raw>>

\* degrees(atan2(p.y - c.y, p.x - c.x)) of the pointer p seen from the
\* overlay's center c, dir = p - c.
AxisAngle(dir) == Atan2Deg(dir[2], dir[1])

\* RotateHandle.mousePressEvent.
RotatePress(dir) ==
    /\ tool = "select" /\ ~lbutton /\ lbutton' = TRUE
    /\ HandleTarget # 0 /\ Alive(items[HandleTarget])
    /\ overlay.rotate
    /\ overlay' = [overlay EXCEPT !.drag =
                      [NoDrag EXCEPT !.role = "R", !.press_angle = AxisAngle(dir),
                                     !.start_angle = items[HandleTarget].angle]]
    /\ band' = FALSE
    /\ grab' = NoGrab
    /\ UNCHANGED <<tool, items, lineVars, penVars, eraserVars, arcVars, modVars, outerVars,
                   arc_raw, line_raw>>

\* A plausible slip: the angle is stored without the modulo.
rotate_angle_raw(start, delta) == start + delta

\* (self._start_angle + delta_deg) % 360.0
rotate_angle(start, delta) == PyFloatMod(FloatRound(start + delta), 360 * Deg)

\* A plausible slip: the delta is added to the angle the item has now.
rotate_base_current(d, it) == it.angle

\* The angle a move starts from: _start_angle, recorded at the press.
rotate_base(d, it) == d.start_angle

\* RotateHandle.mouseMoveEvent.
RotateMove(dir) ==
    /\ lbutton /\ overlay.st = "scene" /\ overlay.drag.role = "R"
    /\ Alive(items[overlay.target])
    /\ items[overlay.target].nmoves < MaxHandleMoves
    /\ LET d == overlay.drag
       IN  items' = [items EXCEPT
                       ![overlay.target].angle =
                          rotate_angle(rotate_base(d, items[overlay.target]),
                                       FloatRound(AxisAngle(dir) - d.press_angle)),
                       ![overlay.target].nmoves = @ + 1]
    /\ overlay' = update_from_target(overlay, items')
    /\ UNCHANGED <<tool, lineVars, penVars, eraserVars, arcVars, modVars, outerVars,
                   lbutton, band, grab, arc_raw, line_raw>>

\* The class names of the events the scene sends to an item, and the
\* patterns of sceneEventFilter, as their CamelCase words.
EventClassNames ==
    {<<"Q", "Graphics", "Scene", "Mouse", "Event">>,
     <<"Q", "Graphics", "Scene", "Wheel", "Event">>}
FilterPatterns ==
    {<<"Graphics", "Scene", "Move">>, <<"Graphics", "Scene", "Mouse", "Move">>,
     <<"Graphics", "Scene", "Change">>, <<"Graphics", "Scene", "Update">>,
     <<"Graphics", "Scene", "Resize">>, <<"Graphics", "Scene", "Wheel">>,
     <<"Graphics", "Scene", "Hover">>}

\* pattern in name.
Occurs(pattern, name) ==
    \E k \in 0 .. Len(name) - Len(pattern) :
       \A j \in 1 .. Len(pattern) : name[k + j] = pattern[j]

\* sceneEventFilter, installed on the target by attach(): an event sent to
\* the target whose class name holds one of the patterns refreshes the
\* overlay.
sceneEventFilter(name) ==
    /\ overlay.st = "scene" /\ overlay.target # 0
    /\ items[overlay.target].st = "scene"
    /\ overlay' = IF \E pat \in FilterPatterns : Occurs(pat, name)
                  THEN update_from_target(overlay, items)
                  ELSE overlay
    /\ UNCHANGED <<tool, items, lineVars, penVars, eraserVars, arcVars, modVars, outerVars,
                   lbutton, band, grab, arc_raw, line_raw>>

\* ------------------------------------------------------ key events ----

\* keyPressEvent (down = TRUE) and keyReleaseEvent (down = FALSE).
keyEvent(k, down) ==
    /\ mod_ctrl' = IF k = "Control" THEN down ELSE mod_ctrl
    /\ mod_shift' = IF k = "Shift" THEN down ELSE mod_shift
    /\ mod_alt' = IF k = "Alt" THEN down ELSE mod_alt
    /\ alt_held' = IF k = "Alt" THEN down ELSE alt_held
    /\ IF k \in {"Control", "Shift"} /\ tool = "arc" /\ arc_stage = 2
       THEN arc_update_preview_from_point(mod_ctrl', mod_shift')
       ELSE UNCHANGED <<arcVars, arc_raw>>
    /\ UNCHANGED <<tool, items, overlay, lineVars, penVars, eraserVars, lbutton,
                   band, grab, outerVars, line_raw>>

keyPressEvent(K) == \E k \in K : keyEvent(k, TRUE)
keyReleaseEvent(K) == \E k \in K : keyEvent(k, FALSE)

focusOutEvent ==
    /\ mod_ctrl' = FALSE /\ mod_shift' = FALSE /\ mod_alt' = FALSE
    /\ UNCHANGED alt_held
    /\ UNCHANGED <<tool, items, overlay, lineVars, penVars, eraserVars, arcVars,
                   lbutton, band, grab, outerVars, arc_raw, line_raw>>

\* --------------------------------------------------- shell actions ----
\* MainWindow._delete_selected: every selected item is removed.
delete_selected ==
    /\ LET S == Selected(items)
       IN  /\ overlay' = AfterRemoval(items, overlay, S)
           /\ items' = Collect(RemoveFromScene(items, S), Refs(line_item, pen_item, overlay'))
    /\ UNCHANGED <<tool, lineVars, penVars, eraserVars, arcVars, modVars, outerVars, lbutton,
                   band, grab, arc_raw, line_raw>>

Deleted(st) == IF st = "scene" THEN "deleted" ELSE st

\* MainWindow._clear_current_scene: scene.clear() deletes every item of the
\* scene; the view's references to them are left as they are.  The slot runs
\* for each selected item deleted, the last time on an empty selection while
\* the overlay, the newest and topmost item, is still alive.
clear_current_scene ==
    /\ LET ov == IF overlay.st = "scene"
                 THEN (IF Selected(items) # {} THEN NoOverlay
                       ELSE [overlay EXCEPT !.st = "deleted"])
                 ELSE overlay
       IN  /\ overlay' = ov
           /\ items' = Collect([i \in Ids |->
                                  IF items[i].st = "scene"
                                  THEN [items[i] EXCEPT !.st = "deleted",
                                                        !.selected = FALSE]
                                  ELSE items[i]],
                               Refs(line_item, pen_item, ov))
    /\ eraser_circle' = [eraser_circle EXCEPT !.st = Deleted(eraser_circle.st)]
    /\ arc_preview' = [arc_preview EXCEPT !.st = Deleted(arc_preview.st)]
    /\ arc_end_dot' = [arc_end_dot EXCEPT !.st = Deleted(arc_end_dot.st)]
    /\ arc_center_dot' = Deleted(arc_center_dot)
    /\ arc_start_dot' = Deleted(arc_start_dot)
    /\ arc_radius_preview' = Deleted(arc_radius_preview)
    /\ UNCHANGED <<tool, lineVars, penVars, erasing, arc_stage, arc_center,
                   arc_start, modVars, outerVars, lbutton, band, grab, arc_raw, line_raw>>

\* The factors of the toolbar's scale actions, 1.1 and 1 / 1.1.
ScaleFactors == {<<11, 10>>, <<10, 11>>}

\* MainWindow._scale_selected: scale() of every selected pixmap is multiplied
\* and clamped to [0.1, 10], the font size of every selected label to
\* [6, 96]; other items are left alone.  The view and its overlay are not
\* involved.
scale_selected(factor) ==
    /\ \A i \in Selected(items) : items[i].nscales < MaxScales
    /\ items' = [i \in Ids |->
                   IF i \notin Selected(items) THEN items[i]
                   ELSE IF items[i].kind = "Pixmap"
                   THEN [items[i] EXCEPT
                           !.scale = clamp(RMul[@, factor], SCALE_MIN, SCALE_MAX),
                           !.nscales = @ + 1]
                   ELSE IF items[i].kind = "Label"
                   THEN [items[i] EXCEPT
                           !.font = clamp(RMul[@, factor], RInt[6], RInt[96]),
                           !.nscales = @ + 1]
                   ELSE items[i]]
    /\ UNCHANGED <<tool, overlay, lineVars, penVars, eraserVars, arcVars, modVars, outerVars,
                   lbutton, band, grab, arc_raw, line_raw>>

\* MainWindow._add_text: a label "F" at the origin, not selected.
add_text ==
    /\ FreeSlots(items) # {}
    /\ items' = [items EXCEPT ![NewSlot(items)] =
                    [NoItem EXCEPT !.st = "scene", !.kind = "Label"]]
    /\ UNCHANGED <<tool, overlay, lineVars, penVars, eraserVars, arcVars, modVars, outerVars,
                   lbutton, band, grab, arc_raw, line_raw>>

\* ---------------------------------------------------------- system ----
\* The events of one kind, with their inputs drawn from the given sets.
SetTool(T) == \E name \in T : toolbar_set_tool(name)
Drop(L, P, A) == \E label \in L, p \in P, alt \in A : dropEvent(label, p, alt)
DropIntoEmpty(L, P, A) == InScene(items) = {} /\ Drop(L, P, A)
ClickSelect ==
    \E i \in Selectable(items) \cup {0}, ctrl \in BOOLEAN : PressSelect(i, ctrl, <<0, 0>>)
DragBand == \E S \in SUBSET Selectable(items) : MoveBand(S)
GrabItem(P) ==
    \E i \in Selectable(items), p \in P : Contains(items[i], p) /\ PressSelect(i, FALSE, p)
GrabHandle(K, R, P) ==
    /\ HandleTarget # 0
    /\ items[HandleTarget].kind \in K
    /\ \E role \in R, p \in P : HandlePress(role, p)
DragHandle(P) == \E p \in P : HandleMove(p)
DragItem(P, A) == \E p \in P, alt \in A : MoveItem(p, alt)
SceneEvent(N) == \E name \in N : sceneEventFilter(name)
ScaleSelected(F) == \E factor \in F : scale_selected(factor)
ClickArc(P) == \E p \in P : PressArc(p)
ClickArcAt(stage, P) == arc_stage = stage /\ ClickArc(P)
HoverArc(P) == \E p \in P : MoveArc(p)
ClickEraser(P) == \E p \in P : PressEraser(p)
DragEraser(P) == \E p \in P : MoveEraser(p)
ClickLine(P, A) == \E p \in P, alt \in A : PressLine(p, alt)
DragLine(P, A, S) == \E p \in P, alt \in A, shift \in S : MoveLine(p, alt, shift)
ClickPen(P, A) == \E p \in P, alt \in A : PressPen(p, alt)
DragPen(P, A) == \E p \in P, alt \in A : MovePen(p, alt)

\* The selection and the overlay: drops, clicks and rubber bands of the
\* select tool, arcs, the eraser, and the shell's delete, clear and add-text.
Next ==
    \/ SetTool(Tools)
    \/ Drop({"Text", "Rectangle"}, {<<103, 57>>}, {FALSE})
    \/ ClickSelect
    \/ DragBand
    \/ ClickArc(ArcPoints2)
    \/ ClickEraser(EraserPoints)
    \/ DragEraser(EraserPoints)
    \/ ReleaseEraser
    \/ ReleaseOther
    \/ delete_selected
    \/ clear_current_scene
    \/ add_text

Spec == Init /\ [][Next]_vars

\* The gestures of the line, pen and eraser tools, tool switches in their middle,
\* the keys and the loss of focus.
NextGesture ==
    \/ SetTool(Tools)
    \/ ClickLine(GesturePoints, {FALSE})
    \/ DragLine(GesturePoints, {FALSE}, {FALSE})
    \/ ReleaseLine
    \/ ClickPen(GesturePoints, {FALSE})
    \/ DragPen(GesturePoints, {FALSE})
    \/ ReleasePen
    \/ ClickEraser(GesturePoints)
    \/ DragEraser(GesturePoints)
    \/ ReleaseEraser
    \/ ReleaseOther
    \/ keyPressEvent({"Shift", "Escape"})
    \/ keyReleaseEvent({"Shift", "Escape"})
    \/ focusOutEvent

SpecGesture == Init /\ [][NextGesture]_vars

\* The line tool alone: its gesture with and without Shift, tool switches
\* and the shell's clear.
NextLine ==
    \/ SetTool({"line", "select"})
    \/ ClickLine(LinePoints, {FALSE})
    \/ DragLine(LinePoints, {FALSE}, BOOLEAN)
    \/ ReleaseLine
    \/ ReleaseOther
    \/ clear_current_scene

SpecLine == Init /\ [][NextLine]_vars

\* The arc gesture and every tool switch in its middle.
NextArcTools ==
    \/ SetTool(Tools)
    \/ ClickArc(ArcPoints2)
    \/ HoverArc(ArcPoints2)
    \/ ReleaseOther
    \/ clear_current_scene

SpecArcTools == Init /\ [][NextArcTools]_vars

\* The arc gesture with its modifiers: the three clicks (the center at the
\* origin), the moves between them, Ctrl and Shift, and the shell's delete.
NextArc ==
    \/ SetTool({"arc", "select"})
    \/ ClickArcAt(0, {<<0, 0>>})
    \/ ClickArcAt(1, ArcPoints)
    \/ ClickArcAt(2, ArcPoints)
    \/ HoverArc(ArcPoints)
    \/ ReleaseOther
    \/ keyPressEvent({"Control", "Shift"})
    \/ keyReleaseEvent({"Control", "Shift"})
    \/ delete_selected

SpecArc == Init /\ [][NextArc]_vars

\* The handles of the overlay: a rectangle dropped into the empty scene under
\* the select tool, then presses, moves and releases of the resize handles
\* and of the rotate handle.
NextResize ==
    \/ DropIntoEmpty({"Rectangle"}, {<<103, 57>>}, {FALSE})
    \/ (\E role \in Roles, p \in HandlePressPoints : HandlePress(role, p))
    \/ (\E p \in HandlePoints : HandleMove(p))
    \/ HandleRelease
    \/ (\E dir \in Quarters : RotatePress(dir))
    \/ (\E dir \in Quarters : RotateMove(dir))
    \/ delete_selected

SpecResize == Init /\ [][NextResize]_vars

\* The rotate handle alone: a rectangle dropped into the empty scene under the
\* select tool, then drags of the rotate handle in directions whose angles
\* are not multiples of a quarter turn.
NextRotate ==
    \/ DropIntoEmpty({"Rectangle"}, {<<103, 57>>}, {FALSE})
    \/ (\E dir \in RotateDirs : RotatePress(dir))
    \/ (\E dir \in RotateDirs : RotateMove(dir))
    \/ HandleRelease
    \/ delete_selected

SpecRotate == Init /\ [][NextRotate]_vars

\* The overlay and its target: a rectangle dropped into the empty scene under
\* the select tool is dragged, resized and rotated by quarter turns, and
\* events are sent to it.
NextSync ==
    \/ DropIntoEmpty({"Rectangle"}, {<<103, 57>>}, {FALSE})
    \/ GrabItem({<<100, 60>>})
    \/ DragItem({<<140, 60>>}, {FALSE})
    \/ ReleaseOther
    \/ GrabHandle({"Rect"}, {"SE"}, {<<160, 100>>})
    \/ DragHandle({<<130, 80>>})
    \/ HandleRelease
    \/ (\E dir \in Quarters : RotatePress(dir))
    \/ (\E dir \in Quarters : RotateMove(dir))
    \/ SceneEvent(EventClassNames)
    \/ delete_selected

SpecSync == Init /\ [][NextSync]_vars

\* The shell's scale action on a selected item that has the overlay: a pixmap
\* or a rectangle dropped into the empty scene under the select tool, the
\* handles of the rectangle and the rotate handle.
NextScale ==
    \/ DropIntoEmpty({"Rectangle", "resistor"}, {<<103, 57>>}, {FALSE})
    \/ ScaleSelected(ScaleFactors)
    \/ GrabHandle({"Rect"}, {"SE"}, {<<160, 100>>})
    \/ DragHandle({<<220, 140>>})
    \/ HandleRelease
    \/ (\E dir \in Quarters : RotatePress(dir))
    \/ (\E dir \in Quarters : RotateMove(dir))
    \/ SceneEvent(EventClassNames)
    \/ delete_selected

SpecScale == Init /\ [][NextScale]_vars

\* The eraser over a rectangle and over lines, drawn or being drawn, with
\* tool changes by shortcut at any moment.
NextEraser ==
    \/ SetTool({"line", "eraser"})
    \/ DropIntoEmpty({"Rectangle"}, {<<103, 57>>}, {FALSE})
    \/ ClickLine({<<0, 0>>}, {FALSE})
    \/ DragLine({<<60, 0>>}, {FALSE}, {FALSE})
    \/ ReleaseLine
    \/ ClickEraser(ContactPoints)
    \/ DragEraser(ContactPoints)
    \/ ReleaseEraser
    \/ ReleaseOther

SpecEraser == Init /\ [][NextEraser]_vars

\* snap_to_grid alone: a point and a grid size are chosen, the point is
\* snapped and the result is snapped again.
InitSnap ==
    /\ InitView /\ escaping = NoEscape
    /\ snapped \in {[NoSnap EXCEPT !.p = <<x, y>>, !.grid = g] :
                       x \in SnapCoords, y \in {0, 1, 10, 29}, g \in GridSizes}

SnapOnce ==
    /\ snapped.n = 0
    /\ snapped' = [snapped EXCEPT !.n = 1, !.once = snap_to_grid_by(snapped.p, snapped.grid)]
    /\ UNCHANGED <<escaping, windowVars, tool, items, overlay, lineVars, penVars, eraserVars, arcVars,
                   modVars, lbutton, band, grab, arc_raw, line_raw>>

SnapTwice ==
    /\ snapped.n = 1
    /\ snapped' = [snapped EXCEPT !.n = 2, !.twice = snap_to_grid_by(snapped.once, snapped.grid)]
    /\ UNCHANGED <<escaping, windowVars, tool, items, overlay, lineVars, penVars, eraserVars, arcVars,
                   modVars, lbutton, band, grab, arc_raw, line_raw>>

NextSnap ==
    \/ SnapOnce
    \/ SnapTwice

SpecSnap == InitSnap /\ [][NextSnap]_vars

\* ---------------------------------------------------------- claims ----
OverlayExists == overlay.st = "scene"

\* C1: after any sequence of drops, selection changes, arc finalizations,
\* eraser deletions and shell delete/clear actions, the transform overlay
\* exists if and only if exactly one scene item is selected.
C1_OverlayIffOneSelected ==
    OverlayExists <=> Cardinality(Selected(items)) = 1

\* C9: every palette drop without the bypass modifier adds exactly one item
\* at snap(p), selected, and after it the overlay exists and targets that
\* item with eight resize handles and the rotate handle, whatever tool is
\* active and whatever was selected before.
C9_DropSelectedWithOverlay ==
    [][\A label \in Labels, p \in DropPoints :
          dropEvent(label, p, FALSE) =>
             LET n == NewSlot(items)
             IN  /\ InScene(items') = InScene(items) \cup {n}
                 /\ items'[n].pos = snap_to_grid(p)
                 /\ items'[n].selected
                 /\ overlay'.st = "scene"
                 /\ overlay'.target = n
                 /\ Cardinality(overlay'.handles) = 8
                 /\ overlay'.rotate]_vars

\* The line gesture is cancelled: the flag is false, no preview is referenced
\* and the preview that was referenced is out of the scene.
LineCancelled(li, its) ==
    /\ ~drawing_line' /\ line_item' = 0
    /\ li # 0 => its[li].st # "scene"

PenCancelled(pi, its) ==
    /\ ~drawing_pen' /\ pen_item' = 0
    /\ pi # 0 => its[pi].st # "scene"

\* C2: set_tool to a different tool while a Line or Pen gesture is in
\* progress cancels that gesture: the in-progress flag becomes false, no
\* preview item is referenced, and the preview is no longer in the scene.
C2_SetToolCancelsLineAndPen ==
    [][\A name \in Tools :
          (name # tool /\ set_tool(name)) =>
             /\ (tool = "line" /\ drawing_line) => LineCancelled(line_item, items')
             /\ (tool = "pen" /\ drawing_pen) => PenCancelled(pen_item, items')]_vars

\* A gesture of a drawing tool is in progress.
InGesture ==
    \/ drawing_line \/ drawing_pen \/ erasing
    \/ (tool = "arc" /\ arc_stage > 0)

\* C4: losing input focus or pressing Escape in the middle of a Line, Pen,
\* Eraser or Arc gesture tears the gesture down: afterwards no gesture is in
\* progress and no preview is referenced.
C4_FocusOutOrEscapeTearsDown ==
    [][(InGesture /\ (focusOutEvent \/ keyEvent("Escape", TRUE))) =>
          /\ ~InGesture'
          /\ line_item' = 0 /\ pen_item' = 0]_vars

\* The line scenario: press at (0,0), drag to (5,5) with Shift, no Alt.
LineScenario ==
    <<LineEv("press", <<0, 0>>, FALSE, FALSE), LineEv("move", <<5, 5>>, FALSE, TRUE)>>

\* The scenario up to its release, the preview still in the scene.
LineScenarioRelease ==
    /\ line_raw = LineScenario
    /\ line_item # 0 /\ items[line_item].st = "scene"
    /\ ReleaseLine

\* C8 as the spec states it: releasing after the scenario leaves a
\* persistent line from (0,0) to (5,5).
C8_ScenarioLineKept ==
    [][LineScenarioRelease =>
          /\ items'[line_item].st = "scene"
          /\ items'[line_item].a = <<0, 0>>
          /\ LineEnd(items'[line_item]) = <<5, 5>>]_vars

\* C8, amended: both points snap to (0,0), so the preview has length 0 and
\* the release discards it; no line is added to the scene.
C8_ScenarioLineDiscarded ==
    [][LineScenarioRelease =>
          /\ items[line_item].a = <<0, 0>> /\ LineEnd(items[line_item]) = <<0, 0>>
          /\ InScene(items') = InScene(items) \ {line_item}
          /\ line_item' = 0 /\ ~drawing_line']_vars

\* The scenario ran to its release and no line is in the scene.
C8_Witness ==
    /\ line_raw = Append(LineScenario, LineEv("release", <<0, 0>>, FALSE, FALSE))
    /\ ~drawing_line
    /\ \A i \in InScene(items) : items[i].kind # "Line"

\* The arc gesture is at rest: stage 0 and none of the five transient items
\* (three dots, radius guide, preview path) referenced or in the scene.
ArcAtRest ==
    /\ arc_stage = 0
    /\ arc_center_dot = "none" /\ arc_start_dot = "none" /\ arc_end_dot.st = "none"
    /\ arc_radius_preview = "none" /\ arc_preview.st = "none"

\* C3: switching from the Arc tool to any other tool (select, line, pen or
\* eraser) at any stage of the arc gesture removes all five transient items
\* from the scene, clears their references and resets the stage to 0.
C3_LeavingArcResetsGesture ==
    [][\A name \in Tools \ {"arc"} :
          (tool = "arc" /\ set_tool(name)) => ArcAtRest']_vars

\* C5: the third accepted click of the Arc tool adds exactly one Arc item,
\* built from the center, the center-start distance, the start angle and the
\* sweep computed at that click; afterwards the stage is 0 and no transient
\* item remains.
C5_ThirdClickAddsOneArc ==
    [][\A p \in ArcPoints :
          (arc_stage = 2 /\ PressArc(p)) =>
             LET n == NewSlot(items)
             IN  /\ InScene(items') = InScene(items) \cup {n}
                 /\ \A i \in Ids \ {n} : items'[i] = items[i]
                 /\ items'[n].kind = "Arc"
                 /\ items'[n].a = arc_center
                 /\ items'[n].r2 = Dist2(arc_start, arc_center)
                 /\ items'[n].start = deg_from(arc_start, arc_center)
                 /\ items'[n].sweep =
                       sweep_finalize(arc_center, arc_start, PointOf(p, mod_alt),
                                      mod_ctrl, mod_shift)
                 /\ ArcAtRest']_vars

\* An arc was just finalized by a click: it is in the scene, the button is
\* still down and the gesture is at rest.
C5_Witness ==
    /\ tool = "arc" /\ lbutton /\ ArcAtRest
    /\ \E i \in InScene(items) : items[i].kind = "Arc" /\ items[i].sweep # 0

\* C6: every finalized arc has a signed sweep of magnitude in (0, 360]
\* degrees, whatever the center, start and end points and the modifiers.
C6_SweepMagnitudeInRange ==
    \A i \in InScene(items) :
       items[i].kind = "Arc" =>
          Abs(items[i].sweep) > 0 /\ Abs(items[i].sweep) <= 360 * Deg

\* The arc scenario before its third click: center clicked at (0,0), start
\* clicked at (50,0), no modifier held.
ArcScenarioClick ==
    /\ arc_raw = <<(<<0, 0>>), (<<50, 0>>)>>
    /\ ~mod_ctrl /\ ~mod_shift /\ ~mod_alt
    /\ arc_stage = 2
    /\ PressArc(<<0, 50>>)

\* C7 as the spec states it: the scenario finalizes an arc with center
\* (0,0), radius 50, start angle 0 and sweep -90 degrees.
C7_ScenarioArcRadius50 ==
    [][ArcScenarioClick =>
          LET arc == items'[NewSlot(items)]
          IN  /\ arc.kind = "Arc" /\ arc.st = "scene"
              /\ arc.a = <<0, 0>> /\ arc.r2 = 50 * 50
              /\ arc.start = 0 /\ arc.sweep = -90 * Deg]_vars

\* C7, amended: the clicks snap to the 20-pixel grid, (50,0) to (40,0) and
\* (0,50) to (0,40), so the arc has radius 40, start angle 0, sweep -90.
C7_ScenarioArcRadius40 ==
    [][ArcScenarioClick =>
          LET arc == items'[NewSlot(items)]
          IN  /\ arc.kind = "Arc" /\ arc.st = "scene"
              /\ arc.a = <<0, 0>> /\ arc.r2 = 40 * 40
              /\ arc.start = 0 /\ arc.sweep = -90 * Deg]_vars

\* The scenario's arc was just finalized.
C7_Witness ==
    /\ tool = "arc" /\ lbutton /\ arc_stage = 0
    /\ \E i \in InScene(items) :
          /\ items[i].kind = "Arc" /\ items[i].a = <<0, 0>>
          /\ items[i].r2 = 40 * 40 /\ items[i].start = 0
          /\ items[i].sweep = -90 * Deg

\* The fraction x lies in [0.1, 10].
InScaleRange(x) == ~RLess[x, SCALE_MIN] /\ ~RLess[SCALE_MAX, x]

\* C10: after any sequence of resize-handle press, move and release events
\* with arbitrary pointer positions, the scale-x and the scale-y of the target
\* are each within [0.1, 10].
C10_ScaleWithinBounds ==
    \A i \in Ids :
       items[i].st # "free" => InScaleRange(items[i].sx) /\ InScaleRange(items[i].sy)

\* A resize drag drove one scale to the upper bound and the other to the
\* lower bound.
C10_Witness ==
    \E i \in InScene(items) :
       /\ items[i].nmoves > 0
       /\ items[i].sx = SCALE_MAX /\ items[i].sy = SCALE_MIN

\* C11: after any sequence of rotate-handle press and move events, with any
\* pointer positions and any starting rotation, the rotation angle of the
\* target is in [0, 360) degrees.
C11_AngleNormalized ==
    \A i \in Ids :
       items[i].st # "free" => items[i].angle >= 0 /\ items[i].angle < 360 * Deg

\* The point of the bounding rectangle br a resize handle stands for: a
\* corner or the middle of an edge, in the item's coordinates.
BoxPoint(br, role) ==
    CASE role = "NW" -> <<br[1], br[2]>>
      [] role = "N" -> <<RHalf[RAdd[br[1], br[3]]], br[2]>>
      [] role = "NE" -> <<br[3], br[2]>>
      [] role = "E" -> <<br[3], RHalf[RAdd[br[2], br[4]]]>>
      [] role = "SE" -> <<br[3], br[4]>>
      [] role = "S" -> <<RHalf[RAdd[br[1], br[3]]], br[4]>>
      [] role = "SW" -> <<br[1], br[4]>>
      [] OTHER -> <<br[1], RHalf[RAdd[br[2], br[4]]]>>

\* Every resize handle of the overlay ov is where the transform of its target
\* takes the handle's point of the bounding rectangle.
HandlesOnBox(its, ov) ==
    \A role \in Roles :
       ov.hpos[role] = mapToScene(its[ov.target],
                                  BoxPoint(boundingRect(its[ov.target]), role))

\* The events that call update_from_target: the creation of the overlay on a
\* dropped or a pressed item, a move of a resize handle or of the rotate
\* handle, and a filtered event whose class name holds a pattern.
C12_Refresh ==
    \/ \E p \in {<<130, 80>>} : HandleMove(p)
    \/ \E dir \in Quarters : RotateMove(dir)
    \/ \E name \in EventClassNames :
          (\E pat \in FilterPatterns : Occurs(pat, name)) /\ sceneEventFilter(name)
    \/ DropIntoEmpty({"Rectangle"}, {<<103, 57>>}, {FALSE})
    \/ (overlay.st = "none" /\ GrabItem({<<100, 60>>}))

\* C12: after each refresh of the overlay (update_from_target) whose target is
\* in the scene, the eight resize handles are at the corners and the edge
\* midpoints of the target's bounding rectangle mapped to the scene through
\* the target's current position, rotation and scales.
C12_HandlesAtMappedBox ==
    [][(C12_Refresh /\ overlay'.st = "scene" /\ items'[overlay'.target].st = "scene")
          => HandlesOnBox(items', overlay')]_vars

\* A rectangle moved, turned and resized whose handles are where the
\* refresh of the last handle move put them.
C12_Witness ==
    /\ overlay.st = "scene" /\ overlay.target # 0
    /\ items[overlay.target].st = "scene"
    /\ items[overlay.target].pos # <<100, 60>>
    /\ items[overlay.target].sx = <<1, 2>>
    /\ items[overlay.target].angle = 90 * Deg
    /\ overlay.drag = NoDrag /\ ~lbutton
    /\ HandlesOnBox(items, overlay)

\* The events that change the geometry of the overlay's target: a move of a
\* resize handle or of the rotate handle, and the shell's scale action while
\* the target is selected.
C13_Mutation ==
    \/ \E p \in {<<220, 140>>} : HandleMove(p)
    \/ \E dir \in Quarters : RotateMove(dir)
    \/ \E factor \in ScaleFactors :
          /\ overlay.st = "scene" /\ overlay.target \in Selected(items)
          /\ scale_selected(factor)

\* C13: every event that changes the overlay's target (a step of a resize or
\* rotate handle drag, the shell's scale action on the selected item)
\* refreshes the overlay after the change, so that at the end of the event
\* the handles are where the target's new geometry puts them.
C13_OverlayFollowsMutation ==
    [][(C13_Mutation /\ overlay'.st = "scene" /\ items'[overlay'.target].st = "scene")
          => HandlesOnBox(items', overlay')]_vars

\* The segment a-e comes within r of the point c.
SegNearPoint(a, e, c, r) ==
    LET dx == e[1] - a[1]
        dy == e[2] - a[2]
        t == dx * (c[1] - a[1]) + dy * (c[2] - a[2])
        cross == dx * (c[2] - a[2]) - dy * (c[1] - a[1])
    IN  IF dx * dx + dy * dy = 0 \/ t <= 0 THEN Dist2(a, c) <= r * r
        ELSE IF t >= dx * dx + dy * dy THEN Dist2(e, c) <= r * r
        ELSE cross * cross <= r * r * (dx * dx + dy * dy)

\* The kinds of item whose shape is compared with a circle below.
CircleKinds == {"Rect", "Line"}

\* The shape of the item meets the disc of radius ERASER_RADIUS centred on c:
\* a rectangle by the distance from c to it, a line by the distance from c to
\* its segment, both with the pen's half width.
CircleHits(it, c) ==
    IF it.kind = "Rect"
    THEN LET dx == Max(0, Abs(c[1] - it.pos[1]) - (RectHalfW + 1))
             dy == Max(0, Abs(c[2] - it.pos[2]) - (RectHalfH + 1))
         IN  dx * dx + dy * dy <= ERASER_RADIUS * ERASER_RADIUS
    ELSE SegNearPoint(it.a, LineEnd(it), c, ERASER_RADIUS + 1)

\* An eraser contact at p: a press, or a move while erasing.
EraserContact(p) == PressEraser(p) \/ (erasing /\ MoveEraser(p))

\* C14: at each eraser contact (a press, or a move with the button held) an
\* item of the scene is removed if and only if its shape meets the disc of
\* radius 16 centred on the pointer; an item wholly outside the disc stays.
C14_ErasesExactlyTheCircle ==
    [][\A p \in ContactPoints :
          EraserContact(p) =>
             \A i \in InScene(items) :
                items[i].kind \in CircleKinds =>
                   ((items'[i].st # "scene") <=> CircleHits(items[i], p))]_vars

\* The preview of the line or pen gesture in progress, 0 for none.
LivePreviews ==
    (IF drawing_line THEN {line_item} ELSE {}) \cup (IF drawing_pen THEN {pen_item} ELSE {})

\* C15: in every reachable state, also after a tool change in the middle of
\* a line, pen or arc gesture, an eraser contact removes neither the eraser's
\* circle, nor the overlay of a target that stays, nor a marker of the arc
\* tool, nor the preview of a line or pen gesture in progress.
C15_EraserSparesTransients ==
    [][\A p \in ContactPoints :
          EraserContact(p) =>
             /\ eraser_circle'.st = eraser_circle.st
             /\ arc_preview' = arc_preview /\ arc_center_dot' = arc_center_dot
             /\ arc_start_dot' = arc_start_dot /\ arc_end_dot' = arc_end_dot
             /\ arc_radius_preview' = arc_radius_preview
             /\ (overlay.st = "scene" /\ items'[overlay.target].st = "scene")
                   => overlay'.st = "scene"
             /\ \A i \in LivePreviews \cap InScene(items) : items'[i].st = "scene"]_vars

\* C16: with the eraser tool active, items are removed only while the left
\* button is held: a move of the pointer with the button up removes nothing
\* from the scene, and a press removes the items under the pointer in the
\* same event.
C16_ErasesOnlyWhileHeld ==
    [][\A p \in ContactPoints :
          /\ (~lbutton /\ MoveEraser(p)) => InScene(items') = InScene(items)
          /\ PressEraser(p) => \A i \in erase_hits(items, p) : items'[i].st # "scene"]_vars

\* C17: snap_to_grid is idempotent: for every point and every grid size,
\* snapping the snapped point gives the snapped point again.
C17_SnapIdempotent == snapped.n = 2 => snapped.twice = snapped.once

\* A point off the grid of size 2, on a tie in both coordinates, snapped
\* twice.
C17_Witness ==
    /\ snapped.n = 2 /\ snapped.grid = 2 /\ snapped.p = <<-3, 1>>
    /\ snapped.once # snapped.p /\ snapped.twice = snapped.once

\* C18: for every point and grid size, each coordinate of the snapped point
\* is a multiple of the grid size and lies within half a grid step of the
\* coordinate it was made from.
C18_SnapNearestMultiple ==
    snapped.n >= 1 =>
       \A k \in 1 .. 2 :
          /\ snapped.once[k] % snapped.grid = 0
          /\ 2 * Abs(snapped.once[k] - snapped.p[k]) <= snapped.grid

\* A point half a step of the default grid from two of its lines, snapped.
C18_Witness ==
    /\ snapped.n >= 1 /\ snapped.grid = GRID_SIZE /\ snapped.p = <<-30, 10>>
    /\ snapped.once = <<-40, 0>>

\* C19: at stage 1 of the arc tool a click whose point, snapped unless Alt,
\* is less than 1 unit from the center is rejected: the stage stays 1, the
\* center is kept and no start dot, radius guide or preview path is made;
\* any other click sets the start point, moves to stage 2 and leaves the
\* radius guide and the preview path in the scene.
C19_SecondClick ==
    [][\A p \in ArcPoints :
          (arc_stage = 1 /\ PressArc(p)) =>
             IF Dist2(PointOf(p, mod_alt), arc_center) < 1
             THEN /\ arc_stage' = 1 /\ arc_center' = arc_center
                  /\ arc_start_dot' = arc_start_dot
                  /\ arc_radius_preview' = arc_radius_preview
                  /\ arc_preview' = arc_preview
             ELSE /\ arc_stage' = 2 /\ arc_start' = PointOf(p, mod_alt)
                  /\ arc_center' = arc_center
                  /\ arc_start_dot' = "scene"
                  /\ arc_radius_preview' = "scene"
                  /\ arc_preview'.st = "scene"]_vars

\* The second click was accepted: stage 2 with the start point, its dot, the
\* radius guide and the preview path.
C19_Witness ==
    /\ arc_stage = 2 /\ arc_start = <<40, 0>> /\ arc_center = <<0, 0>>
    /\ arc_start_dot = "scene" /\ arc_radius_preview = "scene"
    /\ arc_preview.st = "scene"

\* C20: with Shift held at the third click the arc made is the major arc
\* between start and end, of a signed sweep of magnitude at least 180
\* degrees, for every center, start, end and direction; without Shift it is
\* the arc from start to end in the chosen direction, counter-clockwise with
\* Ctrl and clockwise without.
C20_ShiftGivesMajorArc ==
    [][\A p \in ArcPoints :
          (arc_stage = 2 /\ ~arc_item_dropped(arc_center, arc_start) /\ PressArc(p)) =>
             LET n == NewSlot(items)
                 span == ccw_span(deg_from(arc_start, arc_center),
                                  deg_from(PointOf(p, mod_alt), arc_center))
             IN  IF mod_shift
                 THEN Abs(items'[n].sweep) >= 180 * Deg
                 ELSE items'[n].sweep = IF mod_ctrl THEN span ELSE -span]_vars

\* C21: without Shift the signed sweep of the arc made at the third click
\* (counter-clockwise positive) is at most 0 without Ctrl and at least 0
\* with Ctrl, and it is the exact negation of the sweep the same center,
\* start and end give with Ctrl the other way.
C21_CtrlFlipsDirection ==
    [][\A p \in ArcPoints :
          (arc_stage = 2 /\ ~mod_shift /\ ~arc_item_dropped(arc_center, arc_start)
             /\ PressArc(p)) =>
             LET n == NewSlot(items)
             IN  /\ mod_ctrl => items'[n].sweep >= 0
                 /\ ~mod_ctrl => items'[n].sweep <= 0
                 /\ items'[n].sweep =
                       -sweep_finalize(arc_center, arc_start, PointOf(p, mod_alt),
                                       ~mod_ctrl, FALSE)]_vars

\* An arc was just made counter-clockwise: Ctrl is held, Shift is not and
\* the sweep is positive.
C21_Witness ==
    /\ tool = "arc" /\ lbutton /\ ArcAtRest /\ mod_ctrl /\ ~mod_shift
    /\ \E i \in InScene(items) : items[i].kind = "Arc" /\ items[i].sweep = 270 * Deg

\* C22: the release that ends a line gesture removes the preview segment
\* from the scene if its length is below 1 and leaves it in the scene as a
\* persistent item otherwise; either way the gesture is cleared: the view is
\* not drawing and holds no preview.
C22_ReleaseEndsLine ==
    [][ReleaseLine =>
          /\ ~drawing_line' /\ line_item' = 0
          /\ \A i \in {line_item} \cap InScene(items) :
                IF Dist2(items[i].a, LineEnd(items[i])) < 1
                THEN items'[i].st # "scene"
                ELSE items'[i] = items[i]]_vars

\* C23: the item a completed line, pen or arc gesture leaves in the scene is
\* unselected, and completing the gesture leaves the selection of the scene
\* as it was.
C23_GestureKeepsSelection ==
    [][/\ (ReleaseLine \/ ReleasePen) =>
             /\ Selected(items') = Selected(items)
             /\ \A i \in {line_item, pen_item} \cap InScene(items') : ~items'[i].selected
       /\ \A p \in ArcPoints :
             (arc_stage = 2 /\ PressArc(p)) =>
                /\ Selected(items') = Selected(items)
                /\ \A i \in InScene(items') \ InScene(items) : ~items'[i].selected]_vars

\* C24: no completed gesture leaves a degenerate item in the scene: the
\* release of the line tool leaves no segment shorter than 1, the release of
\* the pen tool leaves no stroke without an accepted move, and the third click
\* of the arc tool adds no arc of radius below 1 or of sweep 0.
C24_NoDegenerateItem ==
    [][/\ ReleaseLine =>
             \A i \in {line_item} \cap InScene(items') : ~line_too_short(items'[i])
       /\ ReleasePen =>
             \A i \in {pen_item} \cap InScene(items') : Len(pen_path) > 1
       /\ \A p \in ArcPoints :
             (arc_stage = 2 /\ PressArc(p)) =>
                \A i \in InScene(items') \ InScene(items) :
                   items'[i].r2 >= 1 /\ items'[i].sweep # 0]_vars

\* Points off the grid: snapping moves each of them.
AltPoints == {<<7, 0>>, <<47, 0>>}

\* The pointer events of the line, pen and arc tools and the palette drop, each
\* carrying the Alt state of the keyboard, with the Alt key and the loss of focus.
NextAlt ==
    \/ SetTool({"line", "pen", "arc"})
    \/ ClickLine({<<7, 0>>}, {alt_held})
    \/ ReleaseLine
    \/ ClickPen({<<7, 0>>}, {alt_held})
    \/ ReleasePen
    \/ ClickArcAt(0, {<<7, 0>>})
    \/ ClickArcAt(1, {<<47, 0>>})
    \/ ClickArcAt(2, AltPoints)
    \/ HoverArc({<<47, 0>>})
    \/ ReleaseOther
    \/ DropIntoEmpty({"Rectangle"}, {<<7, 0>>}, {alt_held})
    \/ keyPressEvent({"Alt"})
    \/ keyReleaseEvent({"Alt"})
    \/ focusOutEvent

SpecAlt == Init /\ [][NextAlt]_vars

\* C25: while the Alt key is down, every pointer event uses the raw scene
\* point: the press of the line and pen tools, the three clicks and the
\* preview of the arc tool, and the palette drop; also after the view lost the
\* focus with Alt down.
C25_AltUsesRawPoint ==
    [][\A p \in AltPoints :
          alt_held =>
             /\ PressLine(p, alt_held) => line_p0' = p
             /\ PressPen(p, alt_held) => pen_last' = p
             /\ (arc_stage = 0 /\ PressArc(p)) => arc_center' = p
             /\ (arc_stage = 1 /\ PressArc(p) /\ arc_stage' = 2) => arc_start' = p
             /\ (arc_stage = 2 /\ MoveArc(p) /\ arc_end_dot'.st = "scene") =>
                   arc_end_dot'.pos = p
             /\ dropEvent("Rectangle", p, alt_held) => items'[NewSlot(items)].pos = p]_vars

\* ------------------------------------------- the shell's handlers ----
\* The toolbar handlers of MainWindow, each with page, whether
\* _current_view() finds a WhiteboardView in the current tab: without one the
\* handler returns before it touches anything.

\* A plausible slip: the label is added whether or not a page is found.
MainWindow_add_text_unguarded(page) == add_text

MainWindow_add_text(page) == IF page THEN add_text ELSE UNCHANGED vars

MainWindow_clear_current_scene(page) ==
    IF page THEN clear_current_scene ELSE UNCHANGED vars

MainWindow_delete_selected(page) == IF page THEN delete_selected ELSE UNCHANGED vars

MainWindow_scale_selected(page, factor) ==
    IF page THEN scale_selected(factor) ELSE UNCHANGED vars

\* The closure set_tool of _make_toolbar.
MainWindow_set_tool(page, name) ==
    IF page THEN toolbar_set_tool(name) ELSE UNCHANGED vars

ShellAddText(PG) == \E page \in PG : MainWindow_add_text(page)
ShellClear(PG) == \E page \in PG : MainWindow_clear_current_scene(page)
ShellDelete(PG) == \E page \in PG : MainWindow_delete_selected(page)
ShellScale(PG, F) == \E page \in PG, factor \in F : MainWindow_scale_selected(page, factor)
ShellSetTool(PG, T) == \E page \in PG, name \in T : MainWindow_set_tool(page, name)

\* The shell's handlers with and without a page, on a scene of a dropped
\* pixmap and added labels that clicks select and deselect.
NextShell ==
    \/ DropIntoEmpty({"resistor"}, {<<103, 57>>}, {FALSE})
    \/ ClickSelect
    \/ ReleaseOther
    \/ ShellSetTool(BOOLEAN, {"select", "line"})
    \/ ShellAddText(BOOLEAN)
    \/ ShellClear(BOOLEAN)
    \/ ShellDelete(BOOLEAN)
    \/ ShellScale(BOOLEAN, {<<11, 10>>})

SpecShell == Init /\ [][NextShell]_vars

\* C26: without a page, delete selected, clear, add text, scale selected and
\* set tool change nothing; with a page and an empty selection, delete
\* selected and scale selected change nothing.  A step that changes nothing
\* leaves the same condition in force, so repeating it changes nothing either.
C26_ShellNoOps ==
    [][/\ (\/ ShellAddText({FALSE}) \/ ShellClear({FALSE}) \/ ShellDelete({FALSE})
           \/ ShellScale({FALSE}, ScaleFactors) \/ ShellSetTool({FALSE}, Tools))
          => UNCHANGED vars
       /\ (Selected(items) = {} /\ (ShellDelete({TRUE}) \/ ShellScale({TRUE}, ScaleFactors)))
          => UNCHANGED vars]_vars

\* A page whose scene holds a label and a pixmap, none selected, the overlay
\* gone: delete selected and scale selected find nothing to act on.
C26_Witness ==
    /\ Selected(items) = {} /\ overlay = NoOverlay
    /\ \E i, j \in InScene(items) : items[i].kind = "Label" /\ items[j].kind = "Pixmap"

\* C27: a run of _drop_overlay, which the slot makes whenever the selection has
\* changed to anything but one item, leaves the scene without overlay and
\* handles and the view without reference to them, raises no error, and a
\* second run right after it changes nothing.  (A step that adds an item under
\* the select tool goes on to _ensure_overlay and is left out.)
C27_DropOverlayClears ==
    [][(/\ Selected(items') # Selected(items)
        /\ Cardinality(Selected(items')) # 1
        /\ (tool # "select" \/ InScene(items') \subseteq InScene(items))) =>
          /\ ~drop_overlay_raises(overlay)
          /\ overlay' = NoOverlay
          /\ drop_overlay(overlay') = overlay' /\ ~drop_overlay_raises(overlay')]_vars

\* Two items selected and no overlay: the overlay the first selection brought
\* was dropped when the second item joined the selection.
C27_Witness ==
    /\ Cardinality(Selected(items)) = 2 /\ overlay = NoOverlay

\* ------------------------------------ an overlay for a detached item ----
\* _ensure_overlay(target) called with an item that was constructed and never
\* added to a scene: the overlay held is dropped, a new overlay with its
\* handles is created and added to the scene, attach() and
\* update_from_target() find no scene on the target and do nothing.
ensure_overlay_detached(label) ==
    /\ FreeSlots(items) # {}
    /\ LET n == NewSlot(items)
           its == [items EXCEPT ![n] = [NoItem EXCEPT !.st = "removed",
                                                       !.kind = KindOf(label)]]
       IN  /\ overlay' = ensure_overlay(its, overlay, n)
           /\ items' = Collect(its, Refs(line_item, pen_item, overlay'))
    /\ UNCHANGED <<tool, lineVars, penVars, eraserVars, arcVars, modVars, outerVars,
                   lbutton, band, grab, arc_raw, line_raw>>

\* Pointer positions on the handles of such an overlay, which stay where they
\* were created, around the scene's origin: a corner of the topmost resize
\* handle and a point further out.
DetachedPoints == {<<4, 4>>, <<8, 8>>}

\* The overlay asked for an item outside any scene, next to the overlay of a
\* dropped rectangle, and the handles of either.
NextDetached ==
    \/ ensure_overlay_detached("Rectangle")
    \/ DropIntoEmpty({"Rectangle"}, {<<103, 57>>}, {FALSE})
    \/ HandlePress("SW", <<4, 4>>)
    \/ (\E p \in DetachedPoints : HandleMove(p))
    \/ HandleRelease
    \/ (\E dir \in Quarters : RotatePress(dir))
    \/ (\E dir \in Quarters : RotateMove(dir))
    \/ delete_selected

SpecDetached == Init /\ [][NextDetached]_vars

\* C28: _ensure_overlay for an item outside any scene does nothing: after it
\* the view holds no overlay, and no overlay and no handle is in the scene.
C28_DetachedTargetNoOverlay ==
    [][ensure_overlay_detached("Rectangle") =>
          overlay'.st = "none" /\ overlay'.handles = {} /\ ~overlay'.rotate]_vars

\* C29: with the target of the overlay outside the scene, a refresh of the
\* overlay, a step of a resize handle and a step of the rotate handle change
\* neither the target nor the overlay.
C29_DetachedTargetUntouched ==
    [][(overlay.st = "scene" /\ overlay.target # 0
        /\ items[overlay.target].st # "scene") =>
          LET t == overlay.target
          IN  /\ update_from_target(overlay, items) = overlay
              /\ ((\E p \in DetachedPoints : HandleMove(p))
                  \/ (\E dir \in Quarters : RotateMove(dir))) =>
                    /\ items'[t].sx = items[t].sx /\ items'[t].sy = items[t].sy
                    /\ items'[t].angle = items[t].angle
                    /\ overlay' = overlay]_vars

\* C30: a move of a resize handle leaves the rotation of the target as it
\* was; a move of the E or W handle leaves scale-y at its value of the press,
\* a move of the N or S handle leaves scale-x at its value of the press.
C30_ResizeFrame ==
    [][\A p \in HandlePoints :
          HandleMove(p) =>
             LET t == overlay.target
                 d == overlay.drag
             IN  /\ items'[t].angle = items[t].angle
                 /\ d.role \in {"E", "W"} => items'[t].sy = d.start_sy
                 /\ d.role \in {"N", "S"} => items'[t].sx = d.start_sx]_vars

\* A rectangle turned by a quarter and scaled in y before, whose E handle was
\* dragged: scale-x has changed, scale-y is the value of the press.
C30_Witness ==
    /\ overlay.st = "scene" /\ overlay.drag.role = "E"
    /\ LET t == items[overlay.target]
       IN  /\ t.st = "scene" /\ t.angle = 90 * Deg
           /\ t.sx # overlay.drag.start_sx
           /\ t.sy = overlay.drag.start_sy /\ t.sy # <<1, 1>>

\* A corner handle pressed on the vertical through the center of the
\* rectangle, at its center or on its own corner, and moved.
NextDegenerate ==
    \/ DropIntoEmpty({"Rectangle"}, {<<103, 57>>}, {FALSE})
    \/ (\E p \in {<<100, 100>>, <<100, 60>>, <<160, 100>>} : HandlePress("SE", p))
    \/ (\E p \in HandlePoints : HandleMove(p))
    \/ HandleRelease
    \/ delete_selected

SpecDegenerate == Init /\ [][NextDegenerate]_vars

\* C31: on a move of a resize handle, the scale of every axis whose component
\* of the press vector is at most 1e-6 in magnitude is the scale recorded at
\* the press, whatever the pointer position and however many moves came
\* before.
C31_DegenerateAxisKept ==
    [][\A p \in HandlePoints :
          HandleMove(p) =>
             LET t == overlay.target
                 d == overlay.drag
             IN  /\ ~ExceedsEps(d.press_local[1]) => items'[t].sx = d.start_sx
                 /\ ~ExceedsEps(d.press_local[2]) => items'[t].sy = d.start_sy]_vars

\* A corner handle pressed straight below the center of a rectangle that an
\* earlier drag had scaled, and moved: scale-y has changed and scale-x is
\* that of the press.
C31_Witness ==
    /\ overlay.st = "scene" /\ overlay.drag.role = "SE"
    /\ ~ExceedsEps(overlay.drag.press_local[1])
    /\ ExceedsEps(overlay.drag.press_local[2])
    /\ LET t == items[overlay.target]
       IN  /\ t.st = "scene"
           /\ t.sx = overlay.drag.start_sx /\ t.sx # <<1, 1>>
           /\ t.sy # overlay.drag.start_sy

\* The angles a and b are the same rotation up to the rounding of the float
\* operations of one move (a subtraction, an addition and a modulo).
SameRotation(a, b) ==
    LET diff == (a - b) % (360 * Deg)
        tol == 2 * FloatUlp(360 * Deg)
    IN  diff <= tol \/ diff >= 360 * Deg - tol

\* C32: after each move of the rotate handle the rotation of the target is
\* the rotation at the press plus the pointer angle now minus the pointer
\* angle at the press, modulo 360, whatever the moves before it in the drag.
C32_RotateFromPress ==
    [][\A dir \in RotateDirs \cup Quarters :
          RotateMove(dir) =>
             LET t == overlay.target
                 d == overlay.drag
             IN  SameRotation(items'[t].angle,
                              d.start_angle + AxisAngle(dir) - d.press_angle)]_vars

\* The rotate handle after its second move, the first drag of the item: the
\* rotation differs from that of the press and from the pointer angle alone.
C32_Witness ==
    /\ overlay.st = "scene" /\ overlay.drag.role = "R"
    /\ overlay.drag.press_angle # 0
    /\ LET t == items[overlay.target]
       IN  /\ t.st = "scene" /\ t.nmoves >= 2
           /\ t.angle # overlay.drag.start_angle
           /\ \A dir \in RotateDirs : t.angle # AxisAngle(dir)

\* Pointer positions a pixel or two apart, used raw while Alt is held.
PenPoints == {<<0, 0>>, <<1, 0>>, <<1, 1>>, <<2, 0>>, <<3, 2>>}

\* One stroke of the pen tool on the empty scene, with and without Alt, and
\* tool switches in its middle.
NextPen ==
    \/ SetTool({"pen", "select"})
    \/ keyPressEvent({"Alt"})
    \/ keyReleaseEvent({"Alt"})
    \/ (InScene(items) = {} /\ ClickPen(PenPoints, {alt_held}))
    \/ DragPen(PenPoints, {alt_held})
    \/ ReleasePen
    \/ ReleaseOther

SpecPen == Init /\ [][NextPen]_vars

\* C33: a move of the pen gesture appends to the path exactly when the
\* Euclidean distance from the last recorded point to the current point
\* exceeds 2.0; any other move leaves the path and the last recorded point
\* as they are.
C33_JitterEuclidean ==
    [][\A p \in PenPoints :
          (drawing_pen /\ pen_last # <<>> /\ MovePen(p, alt_held)) =>
             LET cur == PointOf(p, alt_held)
             IN  IF Dist2(cur, pen_last) > PEN_MIN_STEP * PEN_MIN_STEP
                 THEN Len(pen_path') = Len(pen_path) + 1
                 ELSE pen_path' = pen_path /\ pen_last' = pen_last]_vars

\* The reference stroke through the recorded points pts, its coordinates
\* doubled: a start at the first point; for each further point a quadratic
\* segment whose control point is the point before it and whose end is the
\* middle of the two; a straight segment to the last point.
RefStroke(pts) ==
    <<<<0, 2 * pts[1][1], 2 * pts[1][2], 2 * pts[1][1], 2 * pts[1][2]>>>>
    \o [k \in 1 .. Len(pts) - 1 |->
          <<1, 2 * pts[k][1], 2 * pts[k][2],
            pts[k][1] + pts[k + 1][1], pts[k][2] + pts[k + 1][2]>>]
    \o <<<<2, 2 * pts[Len(pts)][1], 2 * pts[Len(pts)][2],
           2 * pts[Len(pts)][1], 2 * pts[Len(pts)][2]>>>>

SceneObject(who, cls, selectable, visible, child) ==
    [who |-> who, slot |-> 0, cls |-> cls, selectable |-> selectable,
     visible |-> visible, child |-> child]

InSceneObject(present, o) == IF present THEN {o} ELSE {}

QtClass(kind) ==
    CASE kind = "Label" -> "QGraphicsTextItem"
      [] kind = "Rect" -> "QGraphicsRectItem"
      [] kind = "Ellipse" -> "QGraphicsEllipseItem"
      [] kind = "Pixmap" -> "QGraphicsPixmapItem"
      [] kind = "Line" -> "QGraphicsLineItem"
      [] OTHER -> "QGraphicsPathItem"

\* The transient items of the view: the overlay and its handles, the eraser
\* cursor, the markers and the previews of the arc in progress.
TransientObjects ==
    InSceneObject(overlay.st = "scene",
        SceneObject("overlay", "TransformOverlay", FALSE, TRUE, FALSE))
    \cup {SceneObject("handle", "QGraphicsRectItem", FALSE, TRUE, TRUE) :
             r \in (IF overlay.st = "scene" THEN overlay.handles ELSE {})}
    \cup InSceneObject(overlay.st = "scene" /\ overlay.rotate,
        SceneObject("rotate", "QGraphicsEllipseItem", FALSE, TRUE, TRUE))
    \cup InSceneObject(eraser_circle.st = "scene",
        SceneObject("eraser_circle", "QGraphicsEllipseItem", FALSE,
                    eraser_circle.visible, FALSE))
    \cup InSceneObject(arc_preview.st = "scene",
        SceneObject("arc_preview", "QGraphicsPathItem", FALSE, TRUE, FALSE))
    \cup InSceneObject(arc_radius_preview = "scene",
        SceneObject("arc_radius_preview", "QGraphicsEllipseItem", FALSE, TRUE, FALSE))
    \cup InSceneObject(arc_center_dot = "scene",
        SceneObject("arc_center_dot", "QGraphicsEllipseItem", FALSE, TRUE, FALSE))
    \cup InSceneObject(arc_start_dot = "scene",
        SceneObject("arc_start_dot", "QGraphicsEllipseItem", FALSE, TRUE, FALSE))
    \cup InSceneObject(arc_end_dot.st = "scene",
        SceneObject("arc_end_dot", "QGraphicsEllipseItem", FALSE, TRUE, FALSE))

\* The persistent items: a LineItem is the one class that is not selectable.
ContentObjects ==
    {[SceneObject("item", QtClass(items[i].kind), items[i].kind # "Line", TRUE, FALSE)
        EXCEPT !.slot = i] : i \in InScene(items)}

\* The test that tells content from helpers among rectangles, ellipses and
\* paths.
is_content_any(o) == TRUE
is_content(o) == o.selectable

\* The command scene_to_tikz emits for one object of the scene: "skip" (none),
\* "draw", "node" or "comment".
export_command(o) ==
    IF o.cls = "TransformOverlay" \/ o.child THEN "skip"
    \* the one pixmap label of the model, "resistor", is a circuit element
    ELSE IF o.cls = "QGraphicsPixmapItem" THEN "draw"
    ELSE IF o.cls = "QGraphicsTextItem" THEN "node"
    ELSE IF o.cls = "QGraphicsLineItem" THEN "draw"
    ELSE IF o.cls \in {"QGraphicsRectItem", "QGraphicsEllipseItem", "QGraphicsPathItem"}
         THEN (IF is_content(o) THEN "draw" ELSE "skip")
    ELSE "comment"

\* The commands of the export, each with the object it was emitted for.
scene_to_tikz ==
    {[who |-> o.who, slot |-> o.slot, command |-> export_command(o)] :
        o \in {x \in TransientObjects \cup ContentObjects :
                  x.visible /\ export_command(x) # "skip"}}

\* The export beside the tools that keep transient items: a rectangle or a
\* label dropped into the empty scene (the overlay under the select tool),
\* the arc gesture, the eraser and a line.
NextExport ==
    \/ SetTool({"select", "arc", "eraser", "line"})
    \/ DropIntoEmpty({"Rectangle", "Text"}, {<<103, 57>>}, {FALSE})
    \/ ClickArc(ArcPoints2)
    \/ HoverArc(ArcPoints2)
    \/ ClickLine({<<0, 0>>}, {FALSE})
    \/ DragLine({<<60, 0>>}, {FALSE}, {FALSE})
    \/ ReleaseLine
    \/ ClickEraser(ContactPoints)
    \/ DragEraser(ContactPoints)
    \/ ReleaseEraser
    \/ ReleaseOther

SpecExport == Init /\ [][NextExport]_vars

\* C35: in every state of the scene (overlay attached or not, eraser cursor
\* shown or hidden, arc markers and previews present or not) the export
\* emits no draw or node command for the overlay, its handles, the eraser
\* cursor or an arc transient: every command is for a persistent item that
\* is in the scene.
C35_TransientsNotExported ==
    \A c \in scene_to_tikz :
        /\ c.who = "item"
        /\ c.slot \in InScene(items)
        /\ c.command \in {"draw", "node"}

\* The export of a scene that holds the overlay with its handles, the visible
\* eraser cursor, the five arc transients and a persistent item.
C35_Witness ==
    /\ overlay.st = "scene" /\ overlay.handles # {}
    /\ eraser_circle.st = "scene" /\ eraser_circle.visible
    /\ arc_preview.st = "scene" /\ arc_radius_preview = "scene"
    /\ arc_center_dot = "scene" /\ arc_start_dot = "scene"
    /\ arc_end_dot.st = "scene"
    /\ scene_to_tikz # {}

\* The reference is None or refers to an item that is in the scene.
RefInScene(st) == st \in {"none", "scene"}

\* C36: after any sequence of operations, scene.clear() included at any
\* point, every item reference the view holds that is not None (_overlay,
\* _eraser_circle, the five arc transients, _line_item, _pen_item) refers to
\* an item that is in the scene.
C36_ReferencesInScene ==
    /\ RefInScene(overlay.st)
    /\ RefInScene(eraser_circle.st)
    /\ RefInScene(arc_preview.st)
    /\ RefInScene(arc_center_dot)
    /\ RefInScene(arc_start_dot)
    /\ RefInScene(arc_end_dot.st)
    /\ RefInScene(arc_radius_preview)
    /\ line_item # 0 => items[line_item].st = "scene"
    /\ pen_item # 0 => items[pen_item].st = "scene"

\* ------------------------------------------------------------- pages ----
\* The tabs of the main window.  The pages are added and switched while the
\* current view has nothing in progress and an empty scene, so that a view
\* that is not the current one is its tool and its eraser cursor.
MaxPages == 3

ParkedView(t, c) == [tool |-> t, eraser_circle |-> c]

ViewAtRest ==
    /\ items = [i \in Ids |-> NoItem] /\ overlay = NoOverlay
    /\ ~drawing_line /\ line_item = 0
    /\ ~drawing_pen /\ pen_item = 0 /\ pen_path = <<>>
    /\ ~erasing /\ arc_stage = 0
    /\ arc_preview = NoPreview /\ arc_center_dot = "none"
    /\ arc_start_dot = "none" /\ arc_end_dot = NoDot
    /\ arc_radius_preview = "none"
    /\ ~lbutton /\ ~band /\ grab = NoGrab

\* WhiteboardView.set_tool on a view at rest.
set_tool_at_rest(v, name) ==
    ParkedView(name, IF name = "eraser" THEN make_eraser_circle(v.eraser_circle)
                     ELSE NoCircle)

\* The tool _add_page and _on_tab_changed read from the toolbar's checks.
tool_from_checks(ck) ==
    IF ck["eraser"] THEN "eraser"
    ELSE IF ck["pen"] THEN "pen"
    ELSE IF ck["line"] THEN "line"
    ELSE "select"

\* The current view becomes v and the view that was current is parked as
\* tab j of the others.
ShowView(v, others) ==
    /\ tool' = v.tool
    /\ eraser_circle' = v.eraser_circle
    /\ parked' = others
    /\ UNCHANGED <<items, overlay, lineVars, penVars, erasing, arcVars, modVars,
                   pureVars, checked, lbutton, band, grab, arc_raw, line_raw>>

\* MainWindow._add_page: a new view in a new tab, made the current one (which
\* runs _on_tab_changed on it), and the tool read from the checks is applied.
add_page ==
    /\ ViewAtRest
    /\ Len(parked) < MaxPages - 1
    /\ LET name == tool_from_checks(checked)
           fresh == set_tool_at_rest(ParkedView("select", NoCircle), name)
       IN  ShowView(set_tool_at_rest(fresh, name),
                    Append(parked, ParkedView(tool, eraser_circle)))

\* MainWindow._on_tab_changed after a click on the tab of the parked view j.
on_tab_changed(j) ==
    /\ ViewAtRest
    /\ j \in 1 .. Len(parked)
    /\ ShowView(set_tool_at_rest(parked[j], tool_from_checks(checked)),
                [parked EXCEPT ![j] = ParkedView(tool, eraser_circle)])

TabChange == \E j \in 1 .. MaxPages - 1 : on_tab_changed(j)

\* The toolbar's tools, new pages and tab changes.
NextPages ==
    \/ SetTool(Tools)
    \/ add_page
    \/ TabChange

SpecPages == Init /\ [][NextPages]_vars

\* C37: after any sequence of toolbar tool selections, page additions and
\* tab changes, the tool of the current view is the tool that is checked in
\* the toolbar, for each of the five tools.
C37_ViewToolIsChecked ==
    \A t \in Tools : checked[t] <=> tool = t

\* C38: after any sequence of pointer, key and tool-switch events the arc
\* stage is 0, 1 or 2 and fixes the arc transients: none of the five at
\* stage 0; the center dot and nothing else at stage 1; the center dot, the
\* start dot, the radius guide and the preview path in the scene at stage 2;
\* the end dot at stage 2 only.
C38_StageFixesTransients ==
    /\ arc_stage \in {0, 1, 2}
    /\ arc_stage = 0 => ArcAtRest
    /\ arc_stage = 1 =>
          /\ arc_center_dot = "scene"
          /\ arc_start_dot = "none" /\ arc_end_dot.st = "none"
          /\ arc_radius_preview = "none" /\ arc_preview.st = "none"
    /\ arc_stage = 2 =>
          /\ arc_center_dot = "scene" /\ arc_start_dot = "scene"
          /\ arc_radius_preview = "scene" /\ arc_preview.st = "scene"
    /\ arc_end_dot.st # "none" => arc_stage = 2

\* The arc gesture among all the tools: its clicks and moves (one arc is
\* finalized, into the empty scene), every tool switch, the eraser pressed
\* and dragged over the markers, the modifier keys and the loss of focus.
NextArcStage ==
    \/ SetTool(Tools)
    \/ ClickArcAt(0, ArcPoints2)
    \/ ClickArcAt(1, ArcPoints2)
    \/ (InScene(items) = {} /\ ClickArcAt(2, ArcPoints2))
    \/ HoverArc(ArcPoints2)
    \/ ClickEraser({<<0, 0>>})
    \/ DragEraser({<<0, 0>>})
    \/ ReleaseEraser
    \/ ReleaseOther
    \/ keyPressEvent({"Control", "Alt"})
    \/ keyReleaseEvent({"Control", "Alt"})
    \/ focusOutEvent

SpecArcStage == Init /\ [][NextArcStage]_vars

\* The arc gesture at stage 1 under the eraser tool, the eraser held over the
\* center dot.
C38_Witness ==
    /\ tool = "eraser" /\ erasing
    /\ arc_stage = 1 /\ arc_center_dot = "scene" /\ arc_end_dot.st = "none"

\* The arc's sweep: the center at the origin, the start at (0, 40), the
\* pointer at points off the grid, with Ctrl, Shift and Alt pressed and
\* released between the moves, and one arc finalized into the empty scene.
SweepPoints == {<<45, 5>>, <<40, 40>>}

NextSweep ==
    \/ SetTool({"arc"})
    \/ ClickArcAt(0, {<<0, 0>>})
    \/ ClickArcAt(1, {<<0, 40>>})
    \/ (InScene(items) = {} /\ ClickArcAt(2, SweepPoints))
    \/ HoverArc(SweepPoints)
    \/ ReleaseOther
    \/ keyPressEvent({"Control", "Shift", "Alt"})
    \/ keyReleaseEvent({"Control", "Shift", "Alt"})

SpecSweep == Init /\ [][NextSweep]_vars

\* Radius (squared), start angle and signed sweep of the arc that a click at
\* the pointer position p finalizes under the given modifiers.
FinalizedAt(p, ctrl, shift, alt) ==
    LET e == PointOf(PointOf(p, alt), alt)
    IN  <<Dist2(arc_start, arc_center), deg_from(arc_start, arc_center),
          sweep_finalize(arc_center, arc_start, e, ctrl, shift)>>

\* C39: the three computations of the arc agree on radius, start angle and
\* signed sweep: the preview drawn by a move to p, the preview rebuilt by a
\* Ctrl or Shift key change while the pointer rests at p, and the arc that a
\* click at p finalizes, each under the modifiers in force.
C39_SweepPathsAgree ==
    [][/\ \A p \in SweepPoints :
             (arc_stage = 2 /\ MoveArc(p)) =>
                arc_preview'.path = FinalizedAt(p, mod_ctrl, mod_shift, mod_alt)
       /\ \A k \in {"Control", "Shift"}, down \in BOOLEAN :
             (tool = "arc" /\ arc_stage = 2 /\ keyEvent(k, down)) =>
                arc_preview'.path =
                   FinalizedAt(arc_end_dot.raw, mod_ctrl', mod_shift', mod_alt')
       /\ \A p \in SweepPoints :
             (arc_stage = 2 /\ PressArc(p) /\ items' # items) =>
                LET arc == items'[NewSlot(items)]
                IN  <<arc.r2, arc.start, arc.sweep>> =
                       FinalizedAt(p, mod_ctrl, mod_shift, mod_alt)]_vars

\* ------------------------------------------------------ _escape_latex ----
\* A string is the sequence of its characters.
MaxText == 3

Backslash == "\\"
Newline == "\n"

\* The replacements of _escape_latex in the order of the dict.
Replacements ==
    << <<Backslash, <<Backslash, "t", "e", "x", "t", "b", "a", "c", "k",
                      "s", "l", "a", "s", "h", "{", "}">> >>,
       <<"{", <<Backslash, "{">> >>,
       <<"}", <<Backslash, "}">> >>,
       <<"$", <<Backslash, "$">> >>,
       <<"&", <<Backslash, "&">> >>,
       <<"#", <<Backslash, "#">> >>,
       <<"_", <<Backslash, "_">> >>,
       <<"%", <<Backslash, "%">> >>,
       <<"^", <<Backslash, "^", "{", "}">> >>,
       <<"~", <<Backslash, "~", "{", "}">> >> >>

\* The forced line break a newline becomes.
LineBreak == <<Backslash, Backslash>>

\* str.replace(ch, repl) for a pattern of one character.
RECURSIVE str_replace(_, _, _)
str_replace(text, ch, repl) ==
    IF text = <<>> THEN <<>>
    ELSE (IF Head(text) = ch THEN repl ELSE <<Head(text)>>)
            \o str_replace(Tail(text), ch, repl)

\* The loop over the dict from its entry k on.
RECURSIVE replace_from(_, _)
replace_from(text, k) ==
    IF k > Len(Replacements) THEN text
    ELSE replace_from(str_replace(text, Replacements[k][1], Replacements[k][2]), k + 1)

escape_latex(text) == str_replace(replace_from(text, 1), Newline, LineBreak)

\* The character-wise substitution of the table: every character of the
\* input is replaced once, by its entry, and a replacement is left as it is.
Substitute(c) ==
    IF c = Newline THEN LineBreak
    ELSE IF \E k \in 1 .. Len(Replacements) : Replacements[k][1] = c
    THEN Replacements[CHOOSE k \in 1 .. Len(Replacements) : Replacements[k][1] = c][2]
    ELSE <<c>>

RECURSIVE Charwise(_)
Charwise(text) ==
    IF text = <<>> THEN <<>> ELSE Substitute(Head(text)) \o Charwise(Tail(text))

\* The characters of the texts: four of the special ones, a letter and the
\* newline.
TextChars == {Backslash, "{", "$", "^", "a", Newline}
Texts == UNION {[1 .. n -> TextChars] : n \in 0 .. MaxText}

InitEscape ==
    /\ InitView /\ snapped = NoSnap
    /\ escaping \in {[NoEscape EXCEPT !.text = t] : t \in Texts}

EscapeText ==
    /\ ~escaping.done
    /\ escaping' = [escaping EXCEPT !.done = TRUE, !.out = escape_latex(escaping.text)]
    /\ UNCHANGED <<tool, items, overlay, lineVars, penVars, eraserVars, arcVars,
                   modVars, snapped, windowVars, lbutton, band, grab, arc_raw,
                   line_raw>>

NextEscape == EscapeText

SpecEscape == InitEscape /\ [][NextEscape]_vars

\* C40: _escape_latex maps every text to the character-wise substitution of
\* its table: each special character becomes exactly its replacement, a
\* newline the forced line break, every other character stays, and nothing a
\* replacement produced is rewritten by a later one.
C40_EscapeIsCharwise ==
    escaping.done => escaping.out = Charwise(escaping.text)

====
